---- MODULE Spec2Model ----
(***************************************************************************)
(* A model of the brro-compressor engine: the FFT and Polynomial/IDW       *)
(* frame compressors (fitting modes, error-bounded loops, decoders) and    *)
(* the CompressedStream container.                                         *)
(*                                                                         *)
(* Sample values are fixed-point integers counted in ticks of              *)
(* 10^-DECIMAL_PRECISION (1 tick = 0.00001), the grid the decoders round   *)
(* to.  Mean squared errors are kept as floor(err * 10^4) plus the class   *)
(* of the discarded fraction, which is all the loops' comparisons read.    *)
(* The numerical libraries the code links (rustfft, splines,               *)
(* inverse_distance_weight) are inputs: the forward spectrum and the value *)
(* the interpolant takes between two keypoints are drawn from small sets.  *)
(***************************************************************************)
EXTENDS Integers, Sequences, FiniteSets, TLC

\* ------------------------------------------------------------------------
\* Bounds of the model
\* ------------------------------------------------------------------------
\* Chunk lengths 1..MaxLen are explored with every placement of the minimum
\* and the maximum sample.
MaxLen == 6

\* Largest point / frequency count passed to compress_hinted (besides N).
MaxHint == 3

\* ------------------------------------------------------------------------
\* Program constants
\* ------------------------------------------------------------------------
DECIMAL_PRECISION == 5

FFT_COMPRESSOR_ID == 15

\* `if data.len() >= 128` / `if frame_size >= 128`
GIBBS_MIN_LEN == 128

\* modulus of `step as u8`
U8_RANGE == 256

\* modulus of `pos as u16`
U16_RANGE == 65536

TicksPerUnit == 10 ^ DECIMAL_PRECISION

\* A sample that is not a number (0.0 / 0.0).
NaN == 0 - (2 ^ 30)

Abs(x) == IF x < 0 THEN 0 - x ELSE x

Max2(a, b) == IF a >= b THEN a ELSE b

\* f64::round of num/den (den > 0): to the nearest integer, halves away from 0.
RoundDiv(num, den) ==
    IF num >= 0 THEN (2 * num + den) \div (2 * den)
    ELSE 0 - ((2 * (0 - num) + den) \div (2 * den))

\* ------------------------------------------------------------------------
\* utils/mod.rs
\* ------------------------------------------------------------------------
RECURSIVE StripFactor(_, _)
StripFactor(n, p) == IF n % p = 0 THEN StripFactor(n \div p, p) ELSE n

\* A test for the powers of 2 alone.
IsPowerOfTwo(n) == StripFactor(n, 2) = 1

\* is_decomposable, for n >= 1 (n = 0 never leaves the first loop).
is_decomposable(n) == StripFactor(StripFactor(n, 2), 3) = 1

RECURSIVE NextSizeFrom(_)
NextSizeFrom(n) == IF is_decomposable(n) THEN n ELSE NextSizeFrom(n + 1)

\* next_size
next_size(n) == NextSizeFrom(n + 1)

\* The multipliers of f64_to_u64, by precision.
Multipliers == <<1, 10, 100, 1000, 10000, 100000, 1000000>>

\* f64_to_u64(number, precision), number >= 0 counted in eighths (an eighth
\* and its product by a power of ten are exact as f64): `as u64` drops the
\* fraction of the product; a precision above 6 panics.
f64_to_u64(number, precision) ==
    IF precision > 6 THEN [status |-> "panic", value |-> 0]
    ELSE [status |-> "ok",
          value  |-> (number * Multipliers[precision + 1]) \div 8]

\* round_and_limit_f64(x, min, max, DECIMAL_PRECISION): x arrives in tenths of
\* a tick (one more decimal than is kept); the result, min and max are ticks.
\* NaN fails both comparisons and is returned as it is.
round_and_limit_f64(x10, min, max) ==
    IF x10 = NaN THEN NaN
    ELSE LET out == RoundDiv(x10, 10)
         IN  IF out < min THEN min ELSE IF out > max THEN max ELSE out

\* ------------------------------------------------------------------------
\* utils/error.rs
\* ------------------------------------------------------------------------
\* The sum s[lo] + ... + s[hi], the range halved at each level.
RECURSIVE SumRange(_, _, _)
SumRange(s, lo, hi) ==
    IF lo > hi THEN 0
    ELSE IF lo = hi THEN s[lo]
    ELSE LET mid == (lo + hi) \div 2
         IN  SumRange(s, lo, mid) + SumRange(s, mid + 1, hi)

SumTo(s, k) == SumRange(s, 1, k)

\* An error value e is the record [q, f]: q = floor(e * 10^4), and f tells
\* where the discarded fraction lies: 0 (none), 1 (below a half), 2 (a half
\* or more).
ErrOf(q, f) == [q |-> q, f |-> f]

\* calculate_error's None (the vectors differ in length).
ErrNone == ErrOf(0 - 1, 0)

\* The mean of a sum of squares given as S2 * 10^6 + S1 * 10^3 + S0 ticks^2
\* over n samples.
MeanOfSquares(S2, S1, S0, n) ==
    LET M == (S1 % 1000) * 1000 + S0
        H == S2 + (S1 \div 1000) + (M \div 1000000)
        L == M % 1000000
        g == (2 * L) \div 1000000
    IN  ErrOf(H \div n,
              IF H % n = 0 /\ L = 0 THEN 0
              ELSE IF 2 * (H % n) + g >= n THEN 2 ELSE 1)

\* The mean of the squares of the differences d (ticks).  A difference is
\* split as dh * 1000 + dl so that the sum of the squares is exact in 32-bit
\* arithmetic.
MeanSquare(d) ==
    LET n == Len(d)
    IN  MeanOfSquares(
            SumTo([i \in 1..n |-> (d[i] \div 1000) * (d[i] \div 1000)], n),
            SumTo([i \in 1..n |-> 2 * (d[i] \div 1000) * (d[i] % 1000)], n),
            SumTo([i \in 1..n |-> (d[i] % 1000) * (d[i] % 1000)], n),
            n)

\* calculate_error: the mean of the squared differences of two sample vectors.
calculate_error(vec1, vec2) ==
    IF Len(vec1) # Len(vec2) THEN ErrNone
    ELSE MeanSquare([i \in 1..Len(vec1) |-> Abs(vec1[i] - vec2[i])])

\* round_f64(e, 4) of an error value, in units of 10^-4.
RoundErr4(e) == e.q + (IF e.f = 2 THEN 1 ELSE 0)

\* round_f64(max_err, 3) in units of 10^-4; max_err is given in units of 10^-4.
RoundBudget3(max_err) == 10 * RoundDiv(max_err, 10)

\* (x * 1000.0) as i32 of an error value and of a budget: truncation.
TruncErr3(e) == e.q \div 10

TruncBudget3(max_err) == max_err \div 10

\* max_err + 1.0
BudgetPlusOne(max_err) == ErrOf(max_err + 10000, 0)

\* `e <= max_err` on the exact values.
ErrWithin(e, max_err) == e.q < max_err \/ (e.q = max_err /\ e.f = 0)

\* ------------------------------------------------------------------------
\* Numeric conversions
\* ------------------------------------------------------------------------
\* `x as f32` (and back `as f64`) of a value in ticks.  A float has 24
\* significant bits: from 8192.0 on its grid is 2^-10 or coarser, and a value
\* within 48 ticks of a whole number is rounded to that whole number.  Below
\* that the rounding error is smaller than a tick.
F32(x) ==
    LET whole == RoundDiv(x, TicksPerUnit) * TicksPerUnit
    IN  IF Abs(x) >= 8192 * TicksPerUnit /\ Abs(x - whole) <= 48
        THEN whole ELSE x

\* ------------------------------------------------------------------------
\* compressor/polynomial.rs
\* ------------------------------------------------------------------------
PolynomialTypes == {"Polynomial", "Idw"}

\* Polynomial::new followed by set_pos, as polynomial() and
\* polynomial_allowed_error() call them.
PolynomialNew(min, max, pmin, pmax, ptype) ==
    [id           |-> ptype,
     data_points  |-> << >>,
     max_value    |-> F32(max),
     max_position |-> pmax,
     min_value    |-> F32(min),
     min_position |-> pmin,
     point_step   |-> 1]

\* (0..n).step_by(step): 0, step, 2*step, ... below n.
StepBy(n, step) ==
    IF n = 0 THEN << >>
    ELSE [k \in 1..(((n - 1) \div step) + 1) |-> (k - 1) * step]

\* An insert that stores the element twice.
VecInsertTwice(v, index, element) ==
    SubSeq(v, 1, index) \o <<element, element>> \o SubSeq(v, index + 1, Len(v))

\* Vec::insert(index, element), index counted from 0.
VecInsert(v, index, element) ==
    SubSeq(v, 1, index) \o <<element>> \o SubSeq(v, index + 1, Len(v))

\* One pass of the loop of compress_hinted that inserts the minimum and the
\* maximum: `values.insert(array_position, ...)` at the index the position
\* has in `points`, for each of the two that lies strictly inside the interval
\* (prev_pos, position_value).  prev_pos is the position before, points[0] at
\* the first pass.
InsertMinMaxAt(self, points, values, k) ==
    LET position_value == points[k]
        prev_pos       == IF k = 1 THEN points[1] ELSE points[k - 1]
        array_position == k - 1
        v1 == IF self.min_position > prev_pos
                 /\ self.min_position < position_value
              THEN VecInsert(values, array_position, self.min_value)
              ELSE values
    IN  IF self.max_position > prev_pos /\ self.max_position < position_value
        THEN VecInsert(v1, array_position, self.max_value)
        ELSE v1

\* TRUE when pass k of that loop inserts a value.
PassInserts(self, points, k) ==
    LET position_value == points[k]
        prev_pos       == IF k = 1 THEN points[1] ELSE points[k - 1]
    IN  \/ self.min_position > prev_pos /\ self.min_position < position_value
        \/ self.max_position > prev_pos /\ self.max_position < position_value

\* The whole loop: the passes that insert, in the order of the loop (the
\* minimum and the maximum lie in at most one interval each, so at most two
\* passes insert; the others leave `values` as it is).
InsertMinMax(self, points, values) ==
    LET ks == {k \in 1..Len(points) : PassInserts(self, points, k)}
    IN  IF ks = {} THEN values
        ELSE LET k1 == CHOOSE k \in ks : \A j \in ks : k <= j
                 k2 == CHOOSE k \in ks : \A j \in ks : k >= j
                 v1 == InsertMinMaxAt(self, points, values, k1)
             IN  IF k1 = k2 THEN v1 ELSE InsertMinMaxAt(self, points, v1, k2)

\* The stride compress_hinted computes.
HintedStep(data_len, point_count) == Max2(data_len \div point_count, 1)

\* The narrowing stored in the frame: `step as u8`.
StepAsU8(step) == step % U8_RANGE

\* Polynomial::compress_hinted(data, points), points >= 1, data not empty.
PolyCompressHinted(self, data, point_count) ==
    IF self.max_value = self.min_value THEN self
    ELSE LET data_len == Len(data)
             step     == HintedStep(data_len, point_count)
             grid     == StepBy(data_len, step)
             points   == IF grid[Len(grid)] # data_len - 1
                         THEN Append(grid, data_len - 1) ELSE grid
             values   == [k \in 1..Len(points) |-> data[points[k] + 1]]
         IN  [self EXCEPT
                !.data_points = InsertMinMax(self, points, values),
                !.point_step  = StepAsU8(step)]

\* The default point count of compress (and first count of compress_bounded).
BaselinePoints(data_len) ==
    IF 3 >= data_len \div 100 THEN 3 ELSE data_len \div 100

\* Polynomial::compress
PolyCompress(self, data) == PolyCompressHinted(self, data, BaselinePoints(Len(data)))

\* What one pass of the loop of get_positions pushes: the grid position, and
\* before it the minimum and the maximum position when they lie strictly
\* inside (prev_pos, position_value); a grid position that is the minimum or
\* the maximum is pushed alone (`continue`).  prev_pos is the grid position
\* before, 0 at the first pass.
GetPositionsAt(self, grid, k) ==
    LET position_value == grid[k]
        prev_pos       == IF k = 1 THEN 0 ELSE grid[k - 1]
    IN  IF self.min_position = position_value
           \/ self.max_position = position_value
        THEN <<position_value>>
        ELSE (IF self.min_position > prev_pos
                 /\ self.min_position < position_value
              THEN <<self.min_position>> ELSE << >>)
             \o (IF self.max_position > prev_pos
                    /\ self.max_position < position_value
                 THEN <<self.max_position>> ELSE << >>)
             \o <<position_value>>

\* The pushes of the passes lo..hi, in order (the range halved at each level).
RECURSIVE GetPositionsLoop(_, _, _, _)
GetPositionsLoop(self, grid, lo, hi) ==
    IF lo > hi THEN << >>
    ELSE IF lo = hi THEN GetPositionsAt(self, grid, lo)
    ELSE LET mid == (lo + hi) \div 2
         IN  GetPositionsLoop(self, grid, lo, mid)
             \o GetPositionsLoop(self, grid, mid + 1, hi)

\* Polynomial::get_positions(frame_size), frame_size >= 1 and point_step >= 1
\* (step_by(0) panics: see PolyToData).
get_positions(self, frame_size) ==
    LET grid   == StepBy(frame_size, self.point_step)
        walked == GetPositionsLoop(self, grid, 1, Len(grid))
        p1 == IF Len(walked) = 0 \/ walked[Len(walked)] < self.max_position
              THEN Append(walked, self.max_position) ELSE walked
    IN  IF p1[Len(p1)] # frame_size - 1 THEN Append(p1, frame_size - 1) ELSE p1

\* A key of the splines crate: Key::new(t, value, interpolation).
Key(t, value, interpolation) ==
    [t |-> t, value |-> value, interpolation |-> interpolation]

\* Keys that are Catmull-Rom whenever they have one key behind and one ahead.
SplineKeysOneAhead(points, values) ==
    LET n == IF Len(points) < Len(values) THEN Len(points) ELSE Len(values)
    IN  [k \in 1..n |->
            Key(points[k], values[k],
                IF (k - 1) > 0 /\ Len(points) - (k - 1) > 1
                THEN "CatmullRom" ELSE "Linear")]

\* The keys polynomial_to_data builds: points zipped with data_points (the
\* shorter of the two decides), Catmull-Rom when the key has one key behind
\* and two ahead in `points`, Linear otherwise.
SplineKeys(points, values) ==
    LET n == IF Len(points) < Len(values) THEN Len(points) ELSE Len(values)
    IN  [k \in 1..n |->
            Key(points[k], values[k],
                IF (k - 1) > 0 /\ Len(points) - (k - 1) > 2
                THEN "CatmullRom" ELSE "Linear")]

\* The rank of key k in the order of t, keys of equal t in their order.
KeyRank(keys, k) ==
    1 + Cardinality({j \in 1..Len(keys) :
                        keys[j].t < keys[k].t \/ (keys[j].t = keys[k].t /\ j < k)})

\* The keys laid out by rank.
KeysByRank(keys, ranks) ==
    [r \in 1..Len(keys) |-> keys[CHOOSE k \in 1..Len(keys) : ranks[k] = r]]

\* Spline::from_vec sorts the keys by t (a stable sort).
SplineFromVec(keys) ==
    KeysByRank(keys, [k \in 1..Len(keys) |-> KeyRank(keys, k)])

\* search_lower_cp of the splines crate on sorted keys: the index (from 1) of
\* the key the sample at t starts from, 0 for None.
search_lower_cp(keys, t) ==
    LET len   == Len(keys)
        below == Cardinality({k \in 1..len : keys[k].t < t})
        hit   == \E k \in 1..len : keys[k].t = t
    IN  IF len < 2 THEN 0
        ELSE IF hit THEN (IF below + 1 = len THEN 0 ELSE below + 1)
        ELSE IF below >= len \/ below = 0 THEN 0
        ELSE below

\* No sample (Option::None) of a spline.
NoSample == 0 - (2 ^ 30) - 1

\* Spline::sample(t), in tenths of a tick.  A Linear key interpolates to the
\* next key; a Catmull-Rom key needs a key behind and two ahead, and between
\* two keys its cubic takes the value `lib`.
SplineSample(keys, t, lib) ==
    LET i == search_lower_cp(keys, t)
    IN  IF i = 0 THEN NoSample
        ELSE LET cp0 == keys[i]
                 cp1 == keys[i + 1]
             IN  IF cp0.interpolation = "Linear"
                 THEN 10 * (cp0.value
                            + RoundDiv((cp1.value - cp0.value) * (t - cp0.t),
                                       cp1.t - cp0.t))
                 ELSE IF (i - 1) = 0 \/ (i - 1) >= Len(keys) - 2 THEN NoSample
                 ELSE IF t = cp0.t THEN 10 * cp0.value
                 ELSE lib

\* Spline::clamped_sample(t): the sample, else the first or last key's value
\* when t lies at or beyond it.
clamped_sample(keys, t, lib) ==
    IF Len(keys) = 0 THEN NoSample
    ELSE LET s == SplineSample(keys, t, lib)
         IN  IF s # NoSample THEN s
             ELSE IF t <= keys[1].t THEN 10 * keys[1].value
             ELSE IF t >= keys[Len(keys)].t THEN 10 * keys[Len(keys)].value
             ELSE NoSample

\* TRUE when the sample at t is computed from the keys alone.
SplineSampleExact(keys, t) ==
    LET i == search_lower_cp(keys, t)
    IN  i = 0 \/ keys[i].interpolation = "Linear"
        \/ (i - 1) = 0 \/ (i - 1) >= Len(keys) - 2 \/ t = keys[i].t

\* `spline_value = ....unwrap_or(prev); prev = spline_value`: a position
\* without a sample repeats the last sample before it, the minimum when there
\* is none.  raw[value] is the sample at position value, in tenths of a tick.
HoldLast(raw, value, min_value) ==
    IF raw[value] # NoSample THEN raw[value]
    ELSE LET had == {v \in 0..value : raw[v] # NoSample}
         IN  IF had = {} THEN 10 * min_value
             ELSE raw[CHOOSE v \in had : \A w \in had : w <= v]

\* The output loop of polynomial_to_data over the samples of the spline.
SplineToData(self, frame_size, raw) ==
    [value \in 1..frame_size |->
        round_and_limit_f64(HoldLast(raw, value - 1, self.min_value),
                            self.min_value, self.max_value)]

\* The samples of a spline at the positions 0..frame_size-1.
SplineSamples(spline, frame_size, lib) ==
    [value \in 0..(frame_size - 1) |-> clamped_sample(spline, value, lib)]

\* Polynomial::polynomial_to_data(frame_size), point_step >= 1.
polynomial_to_data(self, frame_size, lib) ==
    IF self.max_value = self.min_value
    THEN [value \in 1..frame_size |-> self.max_value]
    ELSE SplineToData(self, frame_size,
            SplineSamples(
                SplineFromVec(SplineKeys(get_positions(self, frame_size),
                                         self.data_points)),
                frame_size, lib))

\* IDW::evaluate of the inverse_distance_weight crate, in tenths of a tick: at
\* a point that has a value, that value; elsewhere the weighted mean `lib`.
\* Without any value the weighted mean sum(w * v) / sum(w) has no term: it is
\* 0.0 / 0.0, which is not a number.
IdwEvaluate(points, values, t, lib) ==
    IF Len(values) = 0 THEN NaN
    ELSE LET at == {k \in 1..Len(points) : points[k] = t /\ k <= Len(values)}
         IN  IF at # {} THEN 10 * values[CHOOSE k \in at : \A j \in at : k <= j]
             ELSE lib

\* The output loop of idw_to_data over the interpolant of points and values.
IdwToData(self, frame_size, points, values, lib) ==
    [f \in 1..frame_size |->
        round_and_limit_f64(IdwEvaluate(points, values, f - 1, lib),
                            self.min_value, self.max_value)]

\* Polynomial::idw_to_data(frame_size), point_step >= 1.
idw_to_data(self, frame_size, lib) ==
    IdwToData(self, frame_size, get_positions(self, frame_size),
              self.data_points, lib)

\* The result of a decoder: the samples, or a panic.
Decoded(samples) == [status |-> "ok", samples |-> samples]

Panicked == [status |-> "panic", samples |-> << >>]

\* Polynomial::to_data(frame_size).  get_positions iterates
\* (0..frame_size).step_by(point_step), and step_by panics on a step of 0; the
\* constant short-circuit of polynomial_to_data returns before it.
PolyToDataResult(self, frame_size, lib) ==
    IF self.id = "Idw"
    THEN IF self.point_step = 0 THEN Panicked
         ELSE Decoded(idw_to_data(self, frame_size, lib))
    ELSE IF self.max_value # self.min_value /\ self.point_step = 0 THEN Panicked
         ELSE Decoded(polynomial_to_data(self, frame_size, lib))

\* TRUE when every sample of the interpolant over the keys is computed from
\* the keys alone.
KeysDecodeExact(id, frame_size, points, values, spline) ==
    IF id = "Idw"
    THEN \A t \in 0..(frame_size - 1) :
            \E k \in 1..Len(points) : points[k] = t /\ k <= Len(values)
    ELSE \A t \in 0..(frame_size - 1) : SplineSampleExact(spline, t)

\* TRUE when no value of a numerical library entered the decoded samples.
PolyDecodeExact(self, frame_size) ==
    \/ self.id = "Polynomial" /\ self.max_value = self.min_value
    \/ /\ self.point_step >= 1
       /\ self.max_value # self.min_value
       /\ KeysDecodeExact(self.id, frame_size, get_positions(self, frame_size),
                          self.data_points,
                          SplineFromVec(SplineKeys(get_positions(self, frame_size),
                                                   self.data_points)))

\* ------------------------------------------------------------------------
\* compressor/fft.rs
\* ------------------------------------------------------------------------
\* A complex bin.  Bins are counted in whole sample units.
Complex(re, im) == [re |-> re, im |-> im]

\* The square of Complex::norm.
Norm2(c) == c.re * c.re + c.im * c.im

\* FrequencyPoint::from_complex_with_position
from_complex_with_position(complex, pos) ==
    [pos |-> pos, freq_real |-> complex.re, freq_img |-> complex.im]

to_complex(f) == Complex(f.freq_real, f.freq_img)

to_inv_complex(f) == Complex(f.freq_real, 0 - f.freq_img)

\* FFT::new
FFTNew(min, max) ==
    [id          |-> FFT_COMPRESSOR_ID,
     frequencies |-> << >>,
     max_value   |-> F32(max),
     min_value   |-> F32(min),
     error       |-> ErrNone]

\* A sizing that gives the larger half of the padding to the prefix.
GibbsSizingLongPrefix(data) ==
    LET data_len   == Len(data)
        added_len  == next_size(data_len) - data_len
        prefix_len == (added_len + 1) \div 2
        suffix_len == added_len - prefix_len
    IN  [i \in 1..prefix_len |-> data[1]]
        \o data
        \o [i \in 1..suffix_len |-> data[data_len]]

\* FFT::gibbs_sizing
gibbs_sizing(data) ==
    LET data_len   == Len(data)
        added_len  == next_size(data_len) - data_len
        prefix_len == added_len \div 2
        suffix_len == added_len - prefix_len
    IN  [i \in 1..prefix_len |-> data[1]]
        \o data
        \o [i \in 1..suffix_len |-> data[data_len]]

\* FFT::optimize (the real parts; every imaginary part is 0).
optimize(data) == [i \in 1..Len(data) |-> F32(data[i])]

\* The lengths whose transform has whole coefficients: the model computes
\* these transforms; for every other length the spectrum rustfft returns is an
\* input of the model (SpectrumShapes).
HasExactTransform(len) == len \in {1, 2, 4}

SpectrumShapes == {"flat", "decay", "nodc"}

\* Bin k of a spectrum that is an input: every bin of magnitude 5; five
\* decaying bins; no constant component.
ShapeBin(shape, k) ==
    CASE shape = "flat"  -> Complex(5, 0)
      [] shape = "decay" -> IF k < 5 THEN Complex(5 - k, 0) ELSE Complex(0, 0)
      [] shape = "nodc"  -> IF k = 1 THEN Complex(0, 5)
                            ELSE IF k = 2 THEN Complex(1, 0)
                            ELSE Complex(0, 0)

\* `fft.process(&mut buffer); buffer.truncate(size)`: the bins 0..len/2 of the
\* forward transform of the samples x (ticks).
ForwardHead(x, shape) ==
    LET len == Len(x)
        u   == [i \in 1..len |-> x[i] \div TicksPerUnit]
    IN  IF len = 1 THEN <<Complex(u[1], 0)>>
        ELSE IF len = 2
        THEN <<Complex(u[1] + u[2], 0), Complex(u[1] - u[2], 0)>>
        ELSE IF len = 4
        THEN <<Complex(u[1] + u[2] + u[3] + u[4], 0),
               Complex(u[1] - u[3], u[4] - u[2]),
               Complex(u[1] - u[2] + u[3] - u[4], 0)>>
        ELSE [k \in 1..((len \div 2) + 1) |-> ShapeBin(shape, k - 1)]

\* The order in which BinaryHeap::pop returns bins of equal norm is not
\* specified: lower positions first, or higher positions first.
HeapTies == {"low", "high"}

\* The place of bin k in the order the heap pops the bins: greater norm first.
PopRank(buffer, k, tie) ==
    1 + Cardinality({j \in 1..Len(buffer) :
          \/ Norm2(buffer[j]) > Norm2(buffer[k])
          \/ /\ Norm2(buffer[j]) = Norm2(buffer[k])
             /\ IF tie = "low" THEN j < k ELSE j > k})

\* The loop `for _ in 0..max_freq` of fft_trim over the bins by pop rank: it
\* pushes each popped bin and stops at the first bin that is zero (the zero
\* bins are popped last) or when the heap is empty.
HeapPops(buffer, ranks, max_freq) ==
    LET nonzero == Cardinality({k \in 1..Len(buffer) : Norm2(buffer[k]) # 0})
        count   == IF max_freq < nonzero THEN max_freq ELSE nonzero
    IN  [r \in 1..count |->
            LET k == CHOOSE j \in 1..Len(buffer) : ranks[j] = r
            IN  from_complex_with_position(buffer[k], (k - 1) % U16_RANGE)]

\* The sequence f[lo], ..., f[hi] written out element by element (the range
\* halved at each level).
RECURSIVE ListedRange(_, _, _)
ListedRange(f, lo, hi) ==
    IF lo > hi THEN << >>
    ELSE IF lo = hi THEN <<f[lo]>>
    ELSE LET mid == (lo + hi) \div 2
         IN  ListedRange(f, lo, mid) \o ListedRange(f, mid + 1, hi)

Listed(f, n) == ListedRange(f, 1, n)

\* FFT::fft_trim(buffer, max_freq)
fft_trim(buffer, max_freq, tie) ==
    IF max_freq = 1 THEN <<from_complex_with_position(buffer[1], 0)>>
    ELSE LET ranks == Listed([k \in 1..Len(buffer) |-> PopRank(buffer, k, tie)],
                             Len(buffer))
             pops  == HeapPops(buffer, ranks, max_freq)
         IN  Listed(pops, Len(pops))

\* A count that starts from 3 whatever the length.
FFTBaselineOfThree(len) == 3

\* The frequency count compress and compress_bounded start from.
FFTBaseline(len) == IF 3 >= len \div 100 THEN 3 ELSE len \div 100

\* TRUE when get_mirrored_freqs(len) indexes outside its vector.
MirrorOutOfBounds(self, len) ==
    \E m \in 1..Len(self.frequencies) : self.frequencies[m].pos >= len

\* FFT::get_mirrored_freqs(len), as the vector of indexes 1..len: each stored
\* frequency is written at pos and, unless pos = 0, mirrored at len - pos; a
\* later write replaces an earlier one.
get_mirrored_freqs(self, len) ==
    [n \in 1..len |->
        LET ms == {m \in 1..Len(self.frequencies) :
                      \/ self.frequencies[m].pos = n - 1
                      \/ /\ self.frequencies[m].pos # 0
                         /\ len - self.frequencies[m].pos = n - 1}
        IN  IF ms = {} THEN Complex(0, 0)
            ELSE LET f == self.frequencies[CHOOSE m \in ms : \A j \in ms : j <= m]
                 IN  IF f.pos # 0 /\ len - f.pos = n - 1
                     THEN to_inv_complex(f) ELSE to_complex(f)]

\* The real parts of the inverse transform of d, for the lengths the model
\* computes.
InverseReal(d) ==
    IF Len(d) = 1 THEN <<d[1].re>>
    ELSE IF Len(d) = 2 THEN <<d[1].re + d[2].re, d[1].re - d[2].re>>
    ELSE <<d[1].re + d[2].re + d[3].re + d[4].re,
           d[1].re - d[2].im - d[3].re + d[4].im,
           d[1].re - d[2].re + d[3].re - d[4].re,
           d[1].re + d[2].im - d[3].re - d[4].im>>

\* FFT::round(x, DECIMAL_PRECISION), x in tenths of a tick.
FFTRound(self, x10) ==
    LET out == RoundDiv(x10, 10)
    IN  IF out > self.max_value THEN self.max_value
        ELSE IF out < self.min_value THEN self.min_value
        ELSE out

\* `idata.iter().map(|&f| self.round(f.re / len, ...))` after the inverse
\* transform of length len: computed for the lengths with whole coefficients;
\* for the others every sample rustfft returns is the input `lib`.
InverseSamples(self, len, lib) ==
    IF HasExactTransform(len)
    THEN LET re == InverseReal(get_mirrored_freqs(self, len))
         IN  [i \in 1..len |->
                FFTRound(self, RoundDiv(re[i] * TicksPerUnit * 10, len))]
    ELSE [i \in 1..len |-> FFTRound(self, lib)]

\* The weight of bin k in the energy of a real signal of length len: the
\* constant and the Nyquist bin stand alone, every other bin has a mirror.
BinWeight(k, len) == IF k = 0 \/ 2 * k = len THEN 1 ELSE 2

\* The error of a value counted in units of den^-1.
ErrOfRatio(num, den) ==
    ErrOf((num * 10000) \div den,
          IF (num * 10000) % den = 0 THEN 0
          ELSE IF 2 * ((num * 10000) % den) >= den THEN 2 ELSE 1)

\* The mean squared error of the inverse transform of the stored frequencies
\* against the signal whose spectrum is `buffer`, by Parseval's identity: the
\* energy of the dropped bins over len^2 (the rounding and the clamp of
\* FFT::round left aside).
DroppedEnergyError(buffer, frequencies, len) ==
    ErrOfRatio(
        SumTo([k \in 1..Len(buffer) |->
                 IF \E m \in 1..Len(frequencies) : frequencies[m].pos = k - 1
                 THEN 0 ELSE BinWeight(k - 1, len) * Norm2(buffer[k])],
              Len(buffer)),
        len * len)

\* `current_err = calculate_error(&g_data, &out_data)` of compress_bounded.
FFTFitError(self, g_data, buffer, lib) ==
    IF HasExactTransform(Len(g_data))
    THEN calculate_error(g_data, InverseSamples(self, Len(g_data), lib))
    ELSE DroppedEnergyError(buffer, self.frequencies, Len(g_data))

\* The loop condition of FFT::compress_bounded.
FFTLoopRuns(max_err, current_err) ==
    TruncBudget3(max_err) < TruncErr3(current_err)

\* A match on iterations whose last arm reaches 29 instead of 22.
FFTLoopBreaksLate(iterations) == ~(iterations \in 1..29)

\* `_ => break` of the match on iterations in FFT::compress_bounded.
FFTLoopBreaks(iterations) == ~(iterations \in 1..22)

\* The increment of jump in that match.
FFTJump(iterations, max_freq) ==
    IF iterations \in 1..17 THEN Max2(max_freq \div 2, 1)
    ELSE IF iterations \in 18..22 THEN Max2(max_freq \div 10, 1)
    ELSE 0

\* The padding to_data removes: (prefix_len, suffix_len).
TrimSizes(frame_size) ==
    IF frame_size >= GIBBS_MIN_LEN
    THEN LET added_len  == next_size(frame_size) - frame_size
             prefix_len == added_len \div 2
         IN  <<prefix_len, added_len - prefix_len>>
    ELSE <<0, 0>>

\* The length of the inverse transform of to_data.
GibbsFrameSize(frame_size) ==
    frame_size + TrimSizes(frame_size)[1] + TrimSizes(frame_size)[2]

\* `out_data[trim_sizes.0..out_data.len() - trim_sizes.1]`
TrimPadding(out_data, trim_sizes) ==
    SubSeq(out_data, trim_sizes[1] + 1, Len(out_data) - trim_sizes[2])

\* FFT::to_data(frame_size)
FFTToDataResult(self, frame_size, lib) ==
    IF self.max_value = self.min_value
    THEN Decoded([i \in 1..frame_size |-> self.max_value])
    ELSE IF MirrorOutOfBounds(self, GibbsFrameSize(frame_size)) THEN Panicked
    ELSE Decoded(TrimPadding(
            InverseSamples(self, GibbsFrameSize(frame_size), lib),
            TrimSizes(frame_size)))

\* TRUE when no value of a numerical library entered the decoded samples.
FFTDecodeExact(self, frame_size) ==
    \/ self.max_value = self.min_value
    \/ HasExactTransform(GibbsFrameSize(frame_size))

\* ------------------------------------------------------------------------
\* The minimum and the maximum of a chunk, as fft(), polynomial() and their
\* bounded variants scan them: the first position of each.
\* ------------------------------------------------------------------------
MinValue(data) == CHOOSE v \in {data[i] : i \in 1..Len(data)} :
                      \A i \in 1..Len(data) : v <= data[i]

MaxValue(data) == CHOOSE v \in {data[i] : i \in 1..Len(data)} :
                      \A i \in 1..Len(data) : v >= data[i]

FirstPosition(data, v) ==
    (CHOOSE i \in 1..Len(data) :
        data[i] = v /\ \A j \in 1..(i - 1) : data[j] # v) - 1

\* ------------------------------------------------------------------------
\* The inputs of the compressors
\* ------------------------------------------------------------------------
\* Chunk lengths beyond MaxLen: two lengths from which FFT frames are padded
\* (by an even and by an odd number of samples), a length above 399, where
\* the count of frequencies starts above 3, and
\* a length whose quotient by a point count does not fit point_step.
FFTBigLens == {128, 129, 400}

PolyBigLens == {256}

\* A chunk of n samples with its minimum lo at position pmin, its maximum 3.0
\* at position pmax, and 1.0 or 2.0 everywhere else.
Chunk(n, pmin, pmax, lo) ==
    [i \in 1..n |->
        IF i - 1 = pmin THEN lo * TicksPerUnit
        ELSE IF i - 1 = pmax THEN 3 * TicksPerUnit
        ELSE (1 + ((i - 1) % 2)) * TicksPerUnit]

\* A chunk of n samples equal to 1.0.
Flat(n) == [i \in 1..n |-> TicksPerUnit]

LowValues == {0, 0 - 3}

SmallChunks ==
    {Chunk(n, pmin, pmax, lo) :
        <<n, pmin, pmax, lo>> \in
            {q \in (2..MaxLen) \X (0..(MaxLen - 1)) \X (0..(MaxLen - 1)) \X LowValues :
                q[2] < q[1] /\ q[3] < q[1] /\ q[2] # q[3]}}
    \cup {Flat(n) : n \in 1..MaxLen}

\* A chunk of one sample that no f32 holds: 8192.00001.
WideSample == <<8192 * TicksPerUnit + 1>>

FFTBigChunks == {Chunk(n, 0, 9, 0) : n \in FFTBigLens} \cup {Flat(n) : n \in FFTBigLens}

PolyBigChunks == {Chunk(n, 0, 9, 0) : n \in PolyBigLens} \cup {Flat(n) : n \in PolyBigLens}

\* The chunks given to the FFT compressor: every placement of the extremes for
\* the lengths whose transform is computed, one placement for the others.
FFTChunks ==
    {d \in SmallChunks :
        \/ HasExactTransform(Len(d))
        \/ d = Flat(Len(d))
        \/ d = Chunk(Len(d), 0, Len(d) - 1, 0)}
    \cup FFTBigChunks \cup {WideSample}

PolyChunks == SmallChunks \cup PolyBigChunks \cup {WideSample}

\* Error budgets max_err, in units of 10^-4: 0, 0.5 and 10.
Budgets == {0, 5000, 100000}

\* The value an interpolant or an inverse transform takes where the model
\* does not compute it, in tenths of a tick: below every minimum, 1.234565,
\* above every maximum.
LibValues == {0 - 50000000, 1234565, 50000000}

Kinds == {"FFT", "Polynomial", "Idw"}

VARIABLES
    data,         \* the chunk
    kind,         \* the compressor
    mode,         \* "compress", "hinted" or "bounded"
    hint,         \* the point / frequency count of compress_hinted
    max_err,      \* the budget of compress_bounded, in units of 10^-4
    lib,          \* the value of the numerical libraries (LibValues)
    shape,        \* the spectrum rustfft returns (SpectrumShapes)
    tie,          \* the order of the heap among equal norms (HeapTies)
    pc,           \* "new", "fitting", "compressed", "decoded"
    c,            \* the compressor: FFT or Polynomial
    buffer,       \* FFT: the truncated spectrum given to fft_trim
    trim_count,   \* FFT: the count given to fft_trim
    fit_len,      \* FFT: the length of the forward transform
    current_err,  \* compress_bounded: current_err
    jump,         \* compress_bounded: jump
    iterations,   \* compress_bounded: iterations
    out,          \* the result of to_data
    header,       \* CompressedStream: header
    data_frames,  \* CompressedStream: data_frames
    added,        \* the chunks given to the stream so far, each with the
                  \* samples its frame decoded to when it was added
    stream_pc,    \* "idle", "building", "decompressed", "bytes", "restored",
                  \* "restored_decompressed", "from_bytes_panicked"
    stream_bytes, \* the result of to_bytes
    selection,    \* the last compress_chunk call: whether compress_best chose
                  \* the frame, and among which results
    altered,      \* how the bytes given to from_bytes differ from the
                  \* bytes to_bytes returned ("none": they are the same)
    cs2,          \* the stream from_bytes returned
    stream_out,   \* the result of decompress
    util,         \* the last call of a function of utils/mod.rs
    cli,          \* the run of the command-line program (main.rs)
    legacy        \* the run of Constant::compress (compressor/constant.rs)

\* The command-line program not started.
NoRun == [pc |-> "none"]

\* No Constant built.
NoConstant == [pc |-> "none"]

\* No call of a function of utils/mod.rs yet.
NoCall == [fn |-> "none", number |-> 0, precision |-> 0, status |-> "none", value |-> 0]

inputs == <<data, kind, mode, hint, max_err, lib, shape, tie>>

locals == <<current_err, jump, iterations>>

fftLocals == <<buffer, trim_count, fit_len>>

stream == <<header, data_frames, added, selection, stream_pc, stream_bytes,
           altered, cs2, stream_out>>

NoResult == [status |-> "none", samples |-> << >>]

\* CompressorHeader::new(), as the bytes test_to_bytes shows: "BRRO" and 0.
CompressorHeaderNew == <<66, 82, 82, 79, 0>>

\* No stream (from_bytes not called yet).
NoStream == [header |-> << >>, data_frames |-> << >>]

\* The compressor as fft() / polynomial() and their bounded variants build it.
NewCompressor(k, d) ==
    IF k = "FFT" THEN FFTNew(MinValue(d), MaxValue(d))
    ELSE PolynomialNew(MinValue(d), MaxValue(d),
                       FirstPosition(d, MinValue(d)),
                       FirstPosition(d, MaxValue(d)), k)

\* The pairs of mode and hint for a chunk of n samples.
Modes(n, big) ==
    {<<"compress", 0>>}
    \cup {<<"hinted", h>> : h \in 1..MaxHint}
    \cup (IF big THEN {} ELSE {<<"hinted", n>>})
    \cup (IF big THEN {} ELSE {<<"bounded", 0>>})

Init ==
    /\ kind \in Kinds
    /\ data \in (IF kind = "FFT" THEN FFTChunks ELSE PolyChunks)
    /\ \E m \in Modes(Len(data), kind # "FFT" /\ Len(data) > MaxLen) :
          /\ mode = m[1]
          /\ hint = m[2]
    /\ max_err \in (IF mode = "bounded" THEN Budgets ELSE {0})
    /\ lib \in LibValues
    /\ shape \in (IF kind = "FFT" THEN SpectrumShapes ELSE {"flat"})
    /\ tie \in (IF kind = "FFT" THEN HeapTies ELSE {"low"})
    /\ pc = "new"
    /\ c = NewCompressor(kind, data)
    /\ buffer = << >>
    /\ trim_count = 0
    /\ fit_len = 0
    /\ current_err = ErrNone
    /\ jump = 0
    /\ iterations = 0
    /\ out = NoResult
    /\ header = CompressorHeaderNew
    /\ data_frames = << >>
    /\ added = << >>
    /\ stream_pc = "idle"
    /\ stream_bytes = << >>
    /\ util = NoCall
    /\ cli = NoRun
    /\ legacy = NoConstant
    /\ altered = "none"
    /\ selection = [auto |-> FALSE, max_error |-> 0, results |-> << >>]
    /\ cs2 = NoStream
    /\ stream_out = NoResult

\* -------------------------- FFT --------------------------------------
\* fft(): FFT::compress
FFTCompress ==
    /\ pc = "new" /\ kind = "FFT" /\ mode = "compress"
    /\ IF c.max_value = c.min_value
       THEN UNCHANGED <<c, fftLocals>>
       ELSE /\ buffer' = ForwardHead(optimize(data), shape)
            /\ trim_count' = FFTBaseline(Len(data))
            /\ fit_len' = Len(data)
            /\ c' = [c EXCEPT !.frequencies = fft_trim(buffer', trim_count', tie)]
    /\ pc' = "compressed"
    /\ UNCHANGED <<stream, util, cli, legacy, inputs, locals, out>>

\* fft_set(): FFT::compress_hinted
FFTCompressHinted ==
    /\ pc = "new" /\ kind = "FFT" /\ mode = "hinted"
    /\ IF c.max_value = c.min_value
       THEN UNCHANGED <<c, fftLocals>>
       ELSE /\ buffer' = ForwardHead(optimize(data), shape)
            /\ trim_count' = hint
            /\ fit_len' = Len(data)
            /\ c' = [c EXCEPT !.frequencies = fft_trim(buffer', trim_count', tie)]
    /\ pc' = "compressed"
    /\ UNCHANGED <<stream, util, cli, legacy, inputs, locals, out>>

\* `g_data` of FFT::compress_bounded
GData(d) == IF Len(d) >= GIBBS_MIN_LEN THEN gibbs_sizing(d) ELSE d

\* fft_allowed_error() / fft_compressor(): FFT::compress_bounded up to its loop
FFTCompressBounded ==
    /\ pc = "new" /\ kind = "FFT" /\ mode = "bounded"
    /\ IF c.max_value = c.min_value
       THEN /\ pc' = "compressed"
            /\ UNCHANGED <<fftLocals, locals>>
       ELSE /\ buffer' = ForwardHead(optimize(GData(data)), shape)
            /\ fit_len' = Len(GData(data))
            /\ current_err' = BudgetPlusOne(max_err)
            /\ jump' = 0
            /\ iterations' = 0
            /\ pc' = "fitting"
            /\ UNCHANGED trim_count
    /\ UNCHANGED <<stream, util, cli, legacy, inputs, c, out>>

\* The end of a pass of that loop, given the compressor after fft_trim and
\* the error measured: the pass that breaks also stores the error.
FFTPassEnd(fitted, err) ==
    /\ current_err' = err
    /\ IF FFTLoopBreaks(iterations')
       THEN /\ c' = [fitted EXCEPT !.error = err]
            /\ pc' = "compressed"
       ELSE /\ c' = fitted
            /\ pc' = "fitting"

\* The pass from fft_trim to the measure of the error.
FFTPass(fitted) ==
    FFTPassEnd(fitted, FFTFitError(fitted, GData(data), buffer, lib))

\* One pass of the loop of FFT::compress_bounded.
FFTBoundedIteration ==
    /\ pc = "fitting" /\ kind = "FFT"
    /\ FFTLoopRuns(max_err, current_err)
    /\ iterations' = iterations + 1
    /\ trim_count' = FFTBaseline(Len(data)) + jump
    /\ FFTPass([c EXCEPT !.frequencies = fft_trim(buffer, trim_count', tie)])
    /\ jump' = jump + FFTJump(iterations', FFTBaseline(Len(data)))
    /\ UNCHANGED <<stream, util, cli, legacy, inputs, buffer, fit_len, out>>

\* The loop condition of FFT::compress_bounded fails: the error is stored.
FFTBoundedDone ==
    /\ pc = "fitting" /\ kind = "FFT"
    /\ ~FFTLoopRuns(max_err, current_err)
    /\ c' = [c EXCEPT !.error = current_err]
    /\ pc' = "compressed"
    /\ UNCHANGED <<stream, util, cli, legacy, inputs, fftLocals, locals, out>>

\* fft_to_data(): FFT::to_data with the length of the chunk
FFTToData ==
    /\ pc = "compressed" /\ kind = "FFT"
    /\ out' = FFTToDataResult(c, Len(data), lib)
    /\ pc' = "decoded"
    /\ UNCHANGED <<stream, util, cli, legacy, inputs, c, fftLocals, locals>>

\* -------------------------- Polynomial / IDW --------------------------
\* polynomial(): Polynomial::compress
PolynomialCompress ==
    /\ pc = "new" /\ kind # "FFT" /\ mode = "compress"
    /\ c' = PolyCompress(c, data)
    /\ pc' = "compressed"
    /\ UNCHANGED <<stream, util, cli, legacy, inputs, fftLocals, locals, out>>

\* Polynomial::compress_hinted
PolynomialCompressHinted ==
    /\ pc = "new" /\ kind # "FFT" /\ mode = "hinted"
    /\ c' = PolyCompressHinted(c, data, hint)
    /\ pc' = "compressed"
    /\ UNCHANGED <<stream, util, cli, legacy, inputs, fftLocals, locals, out>>

\* polynomial_allowed_error(): Polynomial::compress_bounded up to its loop
PolynomialCompressBounded ==
    /\ pc = "new" /\ kind # "FFT" /\ mode = "bounded"
    /\ IF c.max_value = c.min_value
       THEN /\ pc' = "compressed"
            /\ UNCHANGED locals
       ELSE /\ current_err' = BudgetPlusOne(max_err)
            /\ jump' = 0
            /\ iterations' = 0
            /\ pc' = "fitting"
    /\ UNCHANGED <<stream, util, cli, legacy, inputs, c, fftLocals, out>>

\* The loop condition of Polynomial::compress_bounded.
PolyLoopRuns(budget, err) == RoundBudget3(budget) < RoundErr4(err)

\* `match method { ... }` of compress_bounded: the decoder of the method.
MethodToData(self, frame_size, libv) ==
    IF self.id = "Idw" THEN idw_to_data(self, frame_size, libv)
    ELSE polynomial_to_data(self, frame_size, libv)

\* The increment of jump in the match on iterations.
PolyJump(iters, data_len) ==
    IF iters \in 1..17 THEN Max2(data_len \div 10, 1)
    ELSE IF iters \in 18..22 THEN Max2(data_len \div 100, 1)
    ELSE 0

\* The compressor at the end of a pass: after the last jump, a fit that
\* misses the target is replaced by one that stores every sample.
PolyPassResult(fitted, d, budget, err, iters) ==
    IF iters \in 1..22 THEN fitted
    ELSE IF RoundBudget3(budget) > RoundErr4(err) THEN fitted
    ELSE PolyCompressHinted(fitted, d, Len(d))

\* TRUE when the pass leaves the loop: a `break` of the match, or every
\* sample stored.
PolyPassBreaks(fitted, d, iters) ==
    ~(iters \in 1..22) \/ Len(fitted.data_points) = Len(d)

\* The end of a pass of that loop, given the compressor after
\* compress_hinted and the error measured.
PolyPassEnd(fitted, err) ==
    /\ current_err' = err
    /\ c' = PolyPassResult(fitted, data, max_err, err, iterations')
    /\ pc' = IF PolyPassBreaks(fitted, data, iterations')
             THEN "compressed" ELSE "fitting"

\* The pass from compress_hinted to the measure of the error.
PolyPass(fitted) ==
    PolyPassEnd(fitted,
                calculate_error(data, MethodToData(fitted, Len(data), lib)))

\* One pass of the loop of Polynomial::compress_bounded.
PolynomialBoundedIteration ==
    /\ pc = "fitting" /\ kind # "FFT"
    /\ PolyLoopRuns(max_err, current_err)
    /\ iterations' = iterations + 1
    /\ PolyPass(PolyCompressHinted(c, data, BaselinePoints(Len(data)) + jump))
    /\ jump' = jump + PolyJump(iterations', Len(data))
    /\ UNCHANGED <<stream, util, cli, legacy, inputs, fftLocals, out>>

\* The loop condition of Polynomial::compress_bounded fails.
PolynomialBoundedDone ==
    /\ pc = "fitting" /\ kind # "FFT"
    /\ ~PolyLoopRuns(max_err, current_err)
    /\ pc' = "compressed"
    /\ UNCHANGED <<stream, util, cli, legacy, inputs, c, fftLocals, locals, out>>

\* to_data(): Polynomial::to_data with the length of the chunk
PolynomialToData ==
    /\ pc = "compressed" /\ kind # "FFT"
    /\ out' = PolyToDataResult(c, Len(data), lib)
    /\ pc' = "decoded"
    /\ UNCHANGED <<stream, util, cli, legacy, inputs, c, fftLocals, locals>>

vars == <<data, kind, mode, hint, max_err, lib, shape, tie, pc, c, buffer,
          trim_count, fit_len, current_err, jump, iterations, out,
          header, data_frames, added, selection, stream_pc, stream_bytes,
          altered, cs2, stream_out, util, cli, legacy>>

Next ==
    \/ FFTCompress
    \/ FFTCompressHinted
    \/ FFTCompressBounded
    \/ FFTBoundedIteration
    \/ FFTBoundedDone
    \/ FFTToData
    \/ PolynomialCompress
    \/ PolynomialCompressHinted
    \/ PolynomialCompressBounded
    \/ PolynomialBoundedIteration
    \/ PolynomialBoundedDone
    \/ PolynomialToData

Spec == Init /\ [][Next]_vars

\* ------------------------------------------------------------------------
\* bincode with config::standard(): little endian, variable-length integers
\* ------------------------------------------------------------------------
\* The sequences of ss, one after the other.
RECURSIVE Flatten(_)
Flatten(ss) == IF ss = << >> THEN << >> ELSE Head(ss) \o Flatten(Tail(ss))

\* The binary exponent of a whole number m, 1 <= m < 8192.
Exponent(m) == CHOOSE e \in 0..12 : 2 ^ e <= m /\ m < 2 ^ (e + 1)

\* An unsigned integer below 65536: one byte below 251, else the marker 251
\* and the two bytes of a u16.
VarintBytes(n) == IF n < 251 THEN <<n>> ELSE <<251, n % 256, n \div 256>>

\* The unsigned integer at index p of b, and the index after it.
ReadVarint(b, p) ==
    IF b[p] < 251 THEN [value |-> b[p], next |-> p + 1]
    ELSE [value |-> b[p + 1] + 256 * b[p + 2], next |-> p + 3]

\* The four bytes of the f32 of a whole number u, |u| < 8192: sign, eight bits
\* of exponent, and the fraction, of which a whole number fills the top bits.
F32Bytes(u) ==
    IF u = 0 THEN <<0, 0, 0, 0>>
    ELSE LET e    == Exponent(Abs(u))
             expo == 127 + e
             frac == ((Abs(u) - 2 ^ e) * 32768) \div (2 ^ e)
         IN  <<0, frac % 256, (expo % 2) * 128 + (frac \div 256),
               (IF u < 0 THEN 128 ELSE 0) + (expo \div 2)>>

\* The whole number whose f32 lies at index p of b.
ReadF32(b, p) ==
    IF b[p + 1] = 0 /\ b[p + 2] = 0 /\ b[p + 3] % 128 = 0 THEN 0
    ELSE LET expo == (b[p + 3] % 128) * 2 + (b[p + 2] \div 128)
             frac == (b[p + 2] % 128) * 256 + b[p + 1]
             mag  == ((32768 + frac) * (2 ^ (expo - 127))) \div 32768
         IN  IF b[p + 3] >= 128 THEN 0 - mag ELSE mag

\* The eight bytes of the f64 of a whole number u, |u| < 8192: sign, eleven
\* bits of exponent, and the fraction.
F64Bytes(u) ==
    IF u = 0 THEN <<0, 0, 0, 0, 0, 0, 0, 0>>
    ELSE LET e    == Exponent(Abs(u))
             expo == 1023 + e
             frac == ((Abs(u) - 2 ^ e) * 4096) \div (2 ^ e)
         IN  <<0, 0, 0, 0, 0, frac % 256, (expo % 16) * 16 + (frac \div 256),
               (IF u < 0 THEN 128 ELSE 0) + (expo \div 16)>>

\* The whole number whose f64 lies at index p of b.
ReadF64(b, p) ==
    IF b[p + 5] = 0 /\ b[p + 6] = 0 /\ b[p + 7] % 128 = 0 THEN 0
    ELSE LET expo == (b[p + 7] % 128) * 16 + (b[p + 6] \div 16)
             frac == (b[p + 6] % 16) * 256 + b[p + 5]
             mag  == ((4096 + frac) * (2 ^ (expo - 1023))) \div 4096
         IN  IF b[p + 7] >= 128 THEN 0 - mag ELSE mag

\* A value in ticks as a whole number of units, and back.  The chunks given
\* to the streams hold whole numbers.
Units(x) == x \div TicksPerUnit

Ticks(u) == u * TicksPerUnit

\* Vec<f64>: the length, then the values (ticks).
VecF64Bytes(v) ==
    VarintBytes(Len(v)) \o Flatten([k \in 1..Len(v) |-> F64Bytes(Units(v[k]))])

\* The Vec<f64> at index p of b (ticks), and the index after it.
ReadVecF64(b, p) ==
    LET len == ReadVarint(b, p)
    IN  [value |-> [k \in 1..len.value |-> Ticks(ReadF64(b, len.next + 8 * (k - 1)))],
         next  |-> len.next + 8 * len.value]

\* ------------------------------------------------------------------------
\* The payloads of the compressors
\* ------------------------------------------------------------------------
\* Polynomial::to_bytes: the fields in the order of the struct.
PolynomialToBytes(self) ==
    VarintBytes(IF self.id = "Idw" THEN 1 ELSE 0)
    \o VecF64Bytes(self.data_points)
    \o F32Bytes(Units(self.max_value))
    \o VarintBytes(self.max_position)
    \o F32Bytes(Units(self.min_value))
    \o VarintBytes(self.min_position)
    \o <<self.point_step>>

\* The fields of a Polynomial after its data points, from index p of b.
ReadPolynomialTail(id, data_points, b, p) ==
    LET maxp == ReadVarint(b, p + 4)
        minp == ReadVarint(b, maxp.next + 4)
    IN  [id           |-> id,
         data_points  |-> data_points,
         max_value    |-> Ticks(ReadF32(b, p)),
         max_position |-> maxp.value,
         min_value    |-> Ticks(ReadF32(b, maxp.next)),
         min_position |-> minp.value,
         point_step   |-> b[minp.next]]

\* TRUE when Decode of PolynomialType accepts the tag of the payload b: it
\* names one of the two variants.
PolynomialTagDecodes(b) == ReadVarint(b, 1).value < Cardinality(PolynomialTypes)

\* Polynomial::decompress
PolynomialDecompress(b) ==
    LET id == ReadVarint(b, 1)
        dp == ReadVecF64(b, id.next)
    IN  ReadPolynomialTail(IF id.value = 1 THEN "Idw" ELSE "Polynomial",
                           dp.value, b, dp.next)

\* Encode of FrequencyPoint: pos, freq_real, freq_img.
FrequencyPointBytes(f) ==
    VarintBytes(f.pos) \o F32Bytes(f.freq_real) \o F32Bytes(f.freq_img)

\* Encode of FFT: id, frequencies, max_value, min_value (the error is left out).
FFTToBytes(self) ==
    <<self.id>>
    \o VarintBytes(Len(self.frequencies))
    \o Flatten([m \in 1..Len(self.frequencies) |->
                   FrequencyPointBytes(self.frequencies[m])])
    \o F32Bytes(Units(self.max_value))
    \o F32Bytes(Units(self.min_value))

\* count frequency points from index p of b, and the index after them.
RECURSIVE ReadFrequencies(_, _, _)
ReadFrequencies(b, p, count) ==
    IF count = 0 THEN [value |-> << >>, next |-> p]
    ELSE LET pos  == ReadVarint(b, p)
             rest == ReadFrequencies(b, pos.next + 8, count - 1)
         IN  [value |-> <<[pos       |-> pos.value,
                           freq_real |-> ReadF32(b, pos.next),
                           freq_img  |-> ReadF32(b, pos.next + 4)]>>
                        \o rest.value,
              next  |-> rest.next]

\* Decode of FFT (FFT::decompress): the error is None.
FFTDecompress(b) ==
    LET count == ReadVarint(b, 2)
        freqs == ReadFrequencies(b, count.next, count.value)
    IN  [id          |-> b[1],
         frequencies |-> freqs.value,
         max_value   |-> Ticks(ReadF32(b, freqs.next)),
         min_value   |-> Ticks(ReadF32(b, freqs.next + 4)),
         error       |-> ErrNone]

\* The tag of the Constant payload, as the bytes test_to_bytes shows.
CONSTANT_COMPRESSOR_ID == 30

\* The tag of the Noop payload.
NOOP_COMPRESSOR_ID == 250

\* constant_compressor(data, stats): the tag and the minimum of the chunk.
constant_compressor(d) ==
    <<CONSTANT_COMPRESSOR_ID>> \o F64Bytes(Units(MinValue(d)))

\* constant_to_data(samples, data)
constant_to_data(sample_number, b) ==
    [i \in 1..sample_number |-> Ticks(ReadF64(b, 2))]

\* noop(data): the tag and the samples as they are.
noop(d) == <<NOOP_COMPRESSOR_ID>> \o VecF64Bytes(d)

\* noop_to_data(samples, data)
noop_to_data(sample_number, b) == ReadVecF64(b, 2).value

\* The libraries as the pure functions below read them: the value `lib`, the
\* spectrum `shape` and the heap order `tie`.
Libs(libv, shp, t) == [lib |-> libv, shape |-> shp, tie |-> t]

\* FFT::compress and FFT::compress_hinted on a new compressor.
FFTCompressHintedOf(self, d, max_freq, libs) ==
    IF self.max_value = self.min_value THEN self
    ELSE [self EXCEPT !.frequencies =
             fft_trim(ForwardHead(optimize(d), libs.shape), max_freq, libs.tie)]

\* fft(data)
fft(d, libs) ==
    FFTToBytes(FFTCompressHintedOf(FFTNew(MinValue(d), MaxValue(d)), d,
                                   FFTBaseline(Len(d)), libs))

\* The loop of FFT::compress_bounded from the state (self, err, jmp, iters),
\* over the spectrum buf of g_data: the pass from fft_trim (FFTBoundedFit) and
\* its end, given the error measured (FFTBoundedPass).
RECURSIVE FFTBoundedLoop(_, _, _, _, _, _, _, _)
RECURSIVE FFTBoundedFit(_, _, _, _, _, _, _)
RECURSIVE FFTBoundedPass(_, _, _, _, _, _, _, _)
FFTBoundedLoop(self, d, budget, buf, libs, err, jmp, iters) ==
    IF ~FFTLoopRuns(budget, err) THEN [self EXCEPT !.error = err]
    ELSE FFTBoundedFit(
            [self EXCEPT !.frequencies =
                fft_trim(buf, FFTBaseline(Len(d)) + jmp, libs.tie)],
            d, budget, buf, libs, jmp, iters + 1)

FFTBoundedFit(fitted, d, budget, buf, libs, jmp, iters) ==
    FFTBoundedPass(fitted, d, budget, buf, libs,
                   FFTFitError(fitted, GData(d), buf, libs.lib), jmp, iters)

FFTBoundedPass(fitted, d, budget, buf, libs, err, jmp, iters) ==
    IF FFTLoopBreaks(iters) THEN [fitted EXCEPT !.error = err]
    ELSE FFTBoundedLoop(fitted, d, budget, buf, libs, err,
                        jmp + FFTJump(iters, FFTBaseline(Len(d))), iters)

\* FFT::compress_bounded on a new compressor.
FFTCompressBoundedOf(self, d, budget, libs) ==
    IF self.max_value = self.min_value THEN self
    ELSE FFTBoundedLoop(self, d, budget,
                        ForwardHead(optimize(GData(d)), libs.shape), libs,
                        BudgetPlusOne(budget), 0, 0)

\* The result of a compression round: CompressorResult::new.
CompressorResult(compressed_data, error) ==
    [compressed_data |-> compressed_data, error |-> error]

\* `c.error.unwrap_or(0.0)`
ErrorOrZero(e) == IF e = ErrNone THEN ErrOf(0, 0) ELSE e

\* fft_compressor(data, allowed_error, stats)
fft_compressor(d, allowed_error, libs) ==
    LET fitted == FFTCompressBoundedOf(FFTNew(MinValue(d), MaxValue(d)), d,
                                       allowed_error, libs)
    IN  CompressorResult(FFTToBytes(fitted), ErrorOrZero(fitted.error))

\* polynomial(data, idw)
polynomial(d, ptype) == PolynomialToBytes(PolyCompress(NewCompressor(ptype, d), d))

\* The loop of Polynomial::compress_bounded from the state (self, err, jmp,
\* iters): the compressor it leaves and the error it measured last.
RECURSIVE PolyBoundedLoop(_, _, _, _, _, _, _)
RECURSIVE PolyBoundedFit(_, _, _, _, _, _)
RECURSIVE PolyBoundedPass(_, _, _, _, _, _, _)
PolyBoundedLoop(self, d, budget, libv, err, jmp, iters) ==
    IF ~PolyLoopRuns(budget, err) THEN [c |-> self, error |-> err]
    ELSE PolyBoundedFit(
            PolyCompressHinted(self, d, BaselinePoints(Len(d)) + jmp),
            d, budget, libv, jmp, iters + 1)

PolyBoundedFit(fitted, d, budget, libv, jmp, iters) ==
    PolyBoundedPass(fitted, d, budget, libv,
                    calculate_error(d, MethodToData(fitted, Len(d), libv)),
                    jmp, iters)

PolyBoundedPass(fitted, d, budget, libv, err, jmp, iters) ==
    IF PolyPassBreaks(fitted, d, iters)
    THEN [c |-> PolyPassResult(fitted, d, budget, err, iters), error |-> err]
    ELSE PolyBoundedLoop(fitted, d, budget, libv, err,
                         jmp + PolyJump(iters, Len(d)), iters)

\* Polynomial::compress_bounded on a new compressor.
PolyCompressBoundedOf(self, d, budget, libv) ==
    IF self.max_value = self.min_value THEN [c |-> self, error |-> ErrNone]
    ELSE PolyBoundedLoop(self, d, budget, libv, BudgetPlusOne(budget), 0, 0)

\* polynomial_allowed_error(data, allowed_error, idw): the bytes, with the
\* error the loop measured last (0.0 when it measured none).
polynomial_allowed_error(d, allowed_error, ptype, libv) ==
    LET fitted == PolyCompressBoundedOf(NewCompressor(ptype, d), d,
                                        allowed_error, libv)
    IN  CompressorResult(PolynomialToBytes(fitted.c), ErrorOrZero(fitted.error))

\* ------------------------------------------------------------------------
\* compressor/mod.rs
\* ------------------------------------------------------------------------
\* The compressors a frame can hold, in the order of the enum (Auto is the
\* sixth variant).
Compressors == <<"Noop", "FFT", "Idw", "Constant", "Polynomial">>

\* The discriminant bincode writes for a variant.
Discriminant(compressor) ==
    (CHOOSE k \in 1..Len(Compressors) : Compressors[k] = compressor) - 1

\* Compressor::compress
CompressorCompress(compressor, d, libs) ==
    CASE compressor = "Noop"       -> noop(d)
      [] compressor = "FFT"        -> fft(d, libs)
      [] compressor = "Constant"   -> constant_compressor(d)
      [] compressor = "Polynomial" -> polynomial(d, "Polynomial")
      [] compressor = "Idw"        -> polynomial(d, "Idw")

\* Compressor::get_compress_bounded_results
get_compress_bounded_results(compressor, d, max_error, libs) ==
    CASE compressor = "Noop"       -> CompressorResult(noop(d), ErrOf(0, 0))
      [] compressor = "FFT"        -> fft_compressor(d, max_error, libs)
      [] compressor = "Constant"   ->
            CompressorResult(constant_compressor(d), ErrOf(0, 0))
      [] compressor = "Polynomial" ->
            polynomial_allowed_error(d, max_error, "Polynomial", libs.lib)
      [] compressor = "Idw"        ->
            polynomial_allowed_error(d, max_error, "Idw", libs.lib)

\* Compressor::compress_bounded
CompressorCompressBounded(compressor, d, max_error, libs) ==
    get_compress_bounded_results(compressor, d, max_error, libs).compressed_data

\* Compressor::decompress
CompressorDecompress(compressor, samples, b, libv) ==
    CASE compressor = "Noop"     -> Decoded(noop_to_data(samples, b))
      [] compressor = "FFT"      -> FFTToDataResult(FFTDecompress(b), samples, libv)
      [] compressor = "Constant" -> Decoded(constant_to_data(samples, b))
      [] compressor \in {"Polynomial", "Idw"} ->
            IF PolynomialTagDecodes(b)
            THEN PolyToDataResult(PolynomialDecompress(b), samples, libv)
            ELSE Panicked
      [] OTHER -> Panicked

\* ------------------------------------------------------------------------
\* CompressorFrame
\* ------------------------------------------------------------------------
\* The frame_size `close` stores, as the bytes test_to_bytes shows.
FRAME_SIZE == 41

\* A closed frame of the chunk d: sample_count, the compressor and its bytes.
CompressorFrame(compressor, d, payload) ==
    [frame_size   |-> FRAME_SIZE,
     sample_count |-> Len(d),
     compressor   |-> compressor,
     data         |-> payload]

\* CompressorFrame::compress
FrameCompress(compressor, d, libs) ==
    CompressorFrame(compressor, d, CompressorCompress(compressor, d, libs))

\* CompressorFrame::compress_bounded
FrameCompressBounded(compressor, d, max_error, libs) ==
    CompressorFrame(compressor, d,
                    CompressorCompressBounded(compressor, d, max_error, libs))

\* The order that decides between candidates of equal size.
CandidateOrder == <<"Constant", "Polynomial", "FFT", "Idw", "Noop">>

\* The candidates compress_best evaluates, by compression_speed.
SpeedCandidates ==
    {{"FFT", "Polynomial"}, {"Polynomial", "Idw"},
     {"Constant", "Polynomial", "FFT", "Idw", "Noop"}}

\* The choice of compress_best among the results of the candidates: the
\* smallest payload of those within max_error, Noop when there is none.
BestOf(d, max_error, results, libs) ==
    LET ok == {r \in results : ErrWithin(r.result.error, max_error)}
        CandidateRank(compressor) ==
            CHOOSE k \in 1..Len(CandidateOrder) : CandidateOrder[k] = compressor
    IN  IF ok = {} THEN FrameCompress("Noop", d, libs)
        ELSE LET best == CHOOSE r \in ok : \A other \in ok :
                            \/ Len(r.result.compressed_data)
                                  < Len(other.result.compressed_data)
                            \/ /\ Len(r.result.compressed_data)
                                     = Len(other.result.compressed_data)
                               /\ CandidateRank(r.compressor)
                                     <= CandidateRank(other.compressor)
             IN  CompressorFrame(best.compressor, d, best.result.compressed_data)

\* CompressorFrame::compress_best
FrameCompressBest(d, max_error, candidates, libs) ==
    BestOf(d, max_error,
           {[compressor |-> k,
             result     |-> get_compress_bounded_results(k, d, max_error, libs)] :
                k \in candidates},
           libs)

\* CompressorFrame::decompress
FrameDecompress(frame, libv) ==
    CompressorDecompress(frame.compressor, frame.sample_count, frame.data, libv)

\* An encoding of a frame that leaves frame_size out.
FrameBytesWithoutSize(frame) ==
    VarintBytes(frame.sample_count)
    \o VarintBytes(Discriminant(frame.compressor))
    \o VarintBytes(Len(frame.data))
    \o frame.data

\* Encode of CompressorFrame: frame_size, sample_count, compressor, data.
FrameBytes(frame) ==
    VarintBytes(frame.frame_size)
    \o VarintBytes(frame.sample_count)
    \o VarintBytes(Discriminant(frame.compressor))
    \o VarintBytes(Len(frame.data))
    \o frame.data

\* The fields of a frame after its frame_size, from index p of b.
ReadFrameTail(frame_size, b, p) ==
    LET count == ReadVarint(b, p)
        disc  == ReadVarint(b, count.next)
        len   == ReadVarint(b, disc.next)
    IN  [value |-> [frame_size   |-> frame_size,
                    sample_count |-> count.value,
                    compressor   |-> IF disc.value < Len(Compressors)
                                     THEN Compressors[disc.value + 1]
                                     ELSE IF disc.value = Len(Compressors)
                                     THEN "Auto" ELSE "Unknown",
                    data         |-> SubSeq(b, len.next, len.next + len.value - 1)],
         next  |-> len.next + len.value]

\* Decode of Vec<CompressorFrame>: count frames from index p of b.
RECURSIVE ReadFrames(_, _, _)
ReadFrames(b, p, count) ==
    IF count = 0 THEN << >>
    ELSE LET frame == ReadFrameTail(ReadVarint(b, p).value, b, ReadVarint(b, p).next)
         IN  <<frame.value>> \o ReadFrames(b, frame.next, count - 1)

\* TRUE when count frames decode from index p of b and end by index limit:
\* bincode returns UnexpectedEnd when the bytes end before the frames do and
\* UnexpectedVariant for a discriminant that names no variant of Compressor.
RECURSIVE FramesDecode(_, _, _, _)
FramesDecode(b, limit, p, count) ==
    IF count = 0 THEN p <= limit
    ELSE LET frame == ReadFrameTail(ReadVarint(b, p).value, b, ReadVarint(b, p).next)
         IN  /\ frame.next <= limit
             /\ frame.value.compressor # "Unknown"
             /\ FramesDecode(b, limit, frame.next, count - 1)

\* ------------------------------------------------------------------------
\* data.rs: CompressedStream
\* ------------------------------------------------------------------------
\* Vec::push
VecPushFront(v, element) == <<element>> \o v

VecPush(v, element) == Append(v, element)

\* An encoder that writes the length of another, empty vector.
StreamToBytesEmptyCount(hdr, frames) ==
    hdr \o VarintBytes(0) \o Flatten([k \in 1..Len(frames) |-> FrameBytes(frames[k])])

\* CompressedStream::to_bytes: the header, then the frames with their count.
StreamToBytes(hdr, frames) ==
    hdr
    \o VarintBytes(Len(frames))
    \o Flatten([k \in 1..Len(frames) |-> FrameBytes(frames[k])])

\* CompressedStream::from_bytes
StreamFromBytes(b) ==
    [header      |-> SubSeq(b, 1, Len(CompressorHeaderNew)),
     data_frames |-> ReadFrames(b, ReadVarint(b, Len(CompressorHeaderNew) + 1).next,
                                ReadVarint(b, Len(CompressorHeaderNew) + 1).value)]

\* TRUE when `bincode::decode_from_slice(data, config)` of from_bytes returns
\* Ok on the bytes b (read with one byte more, so that a value cut at the
\* end of b is seen to pass it); on Err the unwrap panics.
StreamDecodes(b) ==
    /\ Len(b) > Len(CompressorHeaderNew)
    /\ FramesDecode(b \o <<0>>, Len(b) + 1,
                    ReadVarint(b, Len(CompressorHeaderNew) + 1).next,
                    ReadVarint(b, Len(CompressorHeaderNew) + 1).value)

\* The vectors the frames decode to, one after the other; a decoder that
\* panics ends the call.
FlatMap(each) ==
    IF \E k \in 1..Len(each) : each[k].status # "ok" THEN Panicked
    ELSE Decoded(Flatten([k \in 1..Len(each) |-> each[k].samples]))

\* A decompress that walks the frames from the last to the first.
StreamDecompressReversed(frames, libv) ==
    FlatMap([k \in 1..Len(frames) |->
                FrameDecompress(frames[Len(frames) + 1 - k], libv)])

\* CompressedStream::decompress
StreamDecompress(frames, libv) ==
    FlatMap([k \in 1..Len(frames) |-> FrameDecompress(frames[k], libv)])

\* ------------------------------------------------------------------------
\* The inputs of the streams
\* ------------------------------------------------------------------------
\* Largest number of frames of a stream.
MaxFrames == 2

\* A constant chunk, a chunk every compressor stores in full, and a chunk
\* longer than the default point and frequency counts.
StreamChunks == {Flat(2), Chunk(4, 1, 2, 0 - 3), Chunk(6, 1, 3, 0 - 3)}

\* max_error, in units of 10^-4: 0 and 10.
StreamBudgets == {0, 100000}

\* The libraries of a run.
StreamLibs == {Libs(50000000, "flat", "high")}

\* The ways the bytes given to from_bytes differ from the bytes to_bytes
\* returned: the kind of the first frame replaced by the other of Polynomial
\* and Idw, by Auto, or by a number that names no kind; the tag that opens
\* the payload of the first frame replaced by the tag of another compressor
\* (FFT) or by a number that names no PolynomialType; the last byte cut.
Alterations ==
    {"swap_kind", "auto_kind", "unknown_kind", "payload_tag", "truncated"}

\* The index of the kind of the first frame in the bytes b of a stream: after
\* the header, the frame count, frame_size and sample_count.
FirstKindAt(b) ==
    ReadVarint(b, ReadVarint(b, ReadVarint(b, Len(CompressorHeaderNew) + 1).next).next).next

\* TRUE when the bytes of the stream of frames can be altered in the way how:
\* the altered streams are the empty stream, with its last byte cut, and the
\* streams of one frame.
CanAlter(frames, how) ==
    CASE how = "none"      -> TRUE
      [] how = "truncated" -> Len(frames) <= 1
      [] how = "swap_kind" ->
            Len(frames) = 1 /\ frames[1].compressor \in {"Polynomial", "Idw"}
      [] how = "payload_tag" ->
            Len(frames) = 1 /\ frames[1].compressor \in {"FFT", "Polynomial", "Idw"}
      [] OTHER -> Len(frames) = 1

\* The bytes b of a stream, altered in the way how.
AlteredBytes(b, how) ==
    CASE how = "none"      -> b
      [] how = "truncated" -> SubSeq(b, 1, Len(b) - 1)
      [] how = "swap_kind" ->
            [b EXCEPT ![FirstKindAt(b)] =
                IF @ = Discriminant("Idw") THEN Discriminant("Polynomial")
                ELSE Discriminant("Idw")]
      [] how = "auto_kind" ->
            [b EXCEPT ![FirstKindAt(b)] = Len(Compressors)]
      [] how = "unknown_kind" ->
            [b EXCEPT ![FirstKindAt(b)] = Len(Compressors) + 1]
      [] how = "payload_tag" ->
            [b EXCEPT ![ReadVarint(b, FirstKindAt(b) + 1).next] =
                IF @ = FFT_COMPRESSOR_ID THEN CONSTANT_COMPRESSOR_ID
                ELSE Cardinality(PolynomialTypes)]

compressorVars == <<data, kind, mode, hint, max_err, pc, c, buffer, trim_count,
                    fit_len, current_err, jump, iterations, out>>

InitStream ==
    /\ header = CompressorHeaderNew
    /\ data_frames = << >>
    /\ added = << >>
    /\ stream_pc = "building"
    /\ stream_bytes = << >>
    /\ util = NoCall
    /\ cli = NoRun
    /\ legacy = NoConstant
    /\ altered = "none"
    /\ selection = [auto |-> FALSE, max_error |-> 0, results |-> << >>]
    /\ cs2 = NoStream
    /\ stream_out = NoResult
    /\ \E libs \in StreamLibs :
          /\ lib = libs.lib
          /\ shape = libs.shape
          /\ tie = libs.tie
    /\ data = << >>
    /\ kind = "FFT"
    /\ mode = "compress"
    /\ hint = 0
    /\ max_err = 0
    /\ pc = "idle"
    /\ c = FFTNew(0, 0)
    /\ buffer = << >>
    /\ trim_count = 0
    /\ fit_len = 0
    /\ current_err = ErrNone
    /\ jump = 0
    /\ iterations = 0
    /\ out = NoResult

\* What `selection` keeps of a call: whether the frame was left to
\* compress_best (Compressor::Auto), and then with which max_error and which
\* results of the candidates.
ChosenByCaller == [auto |-> FALSE, max_error |-> 0, results |-> << >>]

ChosenByAuto(max_error, results) ==
    [auto |-> TRUE, max_error |-> max_error, results |-> results]

\* `self.data_frames.push(compressor_frame)` of the three compress_chunk calls.
PushFrame(frame, d, call) ==
    /\ data_frames' = VecPush(data_frames, frame)
    /\ added' = Append(added, [chunk   |-> d,
                               decoded |-> FrameDecompress(frame, lib)])
    /\ selection' = call
    /\ UNCHANGED <<header, stream_pc, stream_bytes, altered, cs2, stream_out>>
    /\ UNCHANGED <<compressorVars, lib, shape, tie, util, cli, legacy>>

\* CompressedStream::compress_chunk: CompressorFrame::new(None) holds the
\* default compressor, Noop.
CompressChunk ==
    /\ stream_pc = "building" /\ Len(data_frames) < MaxFrames
    /\ \E d \in StreamChunks :
          PushFrame(FrameCompress("Noop", d, Libs(lib, shape, tie)), d,
                    ChosenByCaller)

\* CompressedStream::compress_chunk_with
CompressChunkWith ==
    /\ stream_pc = "building" /\ Len(data_frames) < MaxFrames
    /\ \E d \in StreamChunks :
       \E compressor \in {Compressors[k] : k \in 1..Len(Compressors)} :
          PushFrame(FrameCompress(compressor, d, Libs(lib, shape, tie)), d,
                    ChosenByCaller)

\* CompressedStream::compress_chunk_bounded_with
CompressChunkBoundedWith ==
    /\ stream_pc = "building" /\ Len(data_frames) < MaxFrames
    /\ \E d \in StreamChunks : \E max_error \in StreamBudgets :
          \/ \E compressor \in {Compressors[k] : k \in 1..Len(Compressors)} :
                PushFrame(FrameCompressBounded(compressor, d, max_error,
                                               Libs(lib, shape, tie)), d,
                          ChosenByCaller)
          \/ \E candidates \in SpeedCandidates :
                PushFrame(FrameCompressBest(d, max_error, candidates,
                                            Libs(lib, shape, tie)), d,
                          ChosenByAuto(max_error,
                              [k \in candidates |->
                                  get_compress_bounded_results(k, d, max_error,
                                      Libs(lib, shape, tie))]))

\* CompressedStream::to_bytes
ToBytes ==
    /\ stream_pc = "building"
    /\ stream_bytes' = StreamToBytes(header, data_frames)
    /\ stream_pc' = "bytes"
    /\ UNCHANGED <<header, data_frames, added, selection, altered, cs2, stream_out>>
    /\ UNCHANGED <<compressorVars, lib, shape, tie, util, cli, legacy>>

\* The outcome of from_bytes on the bytes b: the stream decoded, or the panic
\* of the unwrap.
FromBytesOf(b) ==
    IF StreamDecodes(b)
    THEN /\ cs2' = StreamFromBytes(b)
         /\ stream_pc' = "restored"
    ELSE /\ cs2' = NoStream
         /\ stream_pc' = "from_bytes_panicked"

\* CompressedStream::from_bytes, on the bytes to_bytes returned or on these
\* bytes altered.
FromBytes ==
    /\ stream_pc = "bytes"
    /\ \E how \in {"none"} \cup Alterations :
          /\ CanAlter(data_frames, how)
          /\ altered' = how
          /\ FromBytesOf(AlteredBytes(stream_bytes, how))
    /\ UNCHANGED <<header, data_frames, added, selection, stream_bytes, stream_out>>
    /\ UNCHANGED <<compressorVars, lib, shape, tie, util, cli, legacy>>

\* CompressedStream::decompress, of the stream built or of the stream
\* from_bytes returned.
Decompress ==
    /\ \/ /\ stream_pc = "building"
          /\ stream_out' = StreamDecompress(data_frames, lib)
          /\ stream_pc' = "decompressed"
       \/ /\ stream_pc = "restored"
          /\ stream_out' = StreamDecompress(cs2.data_frames, lib)
          /\ stream_pc' = "restored_decompressed"
    /\ UNCHANGED <<header, data_frames, added, selection, stream_bytes, altered,
                   cs2>>
    /\ UNCHANGED <<compressorVars, lib, shape, tie, util, cli, legacy>>

NextStream ==
    \/ CompressChunk
    \/ CompressChunkWith
    \/ CompressChunkBoundedWith
    \/ ToBytes
    \/ FromBytes
    \/ Decompress

SpecStream == InitStream /\ [][NextStream]_vars

\* ------------------------------------------------------------------------
\* utils/mod.rs: the calls of next_size and f64_to_u64
\* ------------------------------------------------------------------------
\* next_size is called on every n up to MaxSize and on the sizes of
\* test_next_size.
MaxSize == 160

TestSizes == {512, 2048, 12432}

\* f64_to_u64 is called on every number of eighths up to MaxEighths (3.0),
\* with every precision up to MaxPrecision.
MaxEighths == 24

MaxPrecision == 7

InitUtils ==
    /\ util = NoCall
    /\ cli = NoRun
    /\ legacy = NoConstant
    /\ header = CompressorHeaderNew
    /\ data_frames = << >>
    /\ added = << >>
    /\ stream_pc = "idle"
    /\ stream_bytes = << >>
    /\ altered = "none"
    /\ selection = ChosenByCaller
    /\ cs2 = NoStream
    /\ stream_out = NoResult
    /\ lib = 0
    /\ shape = "flat"
    /\ tie = "low"
    /\ data = << >>
    /\ kind = "FFT"
    /\ mode = "compress"
    /\ hint = 0
    /\ max_err = 0
    /\ pc = "idle"
    /\ c = FFTNew(0, 0)
    /\ buffer = << >>
    /\ trim_count = 0
    /\ fit_len = 0
    /\ current_err = ErrNone
    /\ jump = 0
    /\ iterations = 0
    /\ out = NoResult

\* next_size(n), up to its loop: `n += 1`.
NextSizeCall ==
    /\ util = NoCall
    /\ \E n \in (0..MaxSize) \cup TestSizes :
          util' = [fn |-> "next_size", number |-> n, precision |-> 0,
                   status |-> "running", value |-> n + 1]
    /\ UNCHANGED <<compressorVars, lib, shape, tie, stream, cli, legacy>>

\* One test of `while !is_decomposable(n)`: a pass of the loop, `n += 1`,
\* or the return of n.
NextSizeStep ==
    /\ util.fn = "next_size" /\ util.status = "running"
    /\ IF is_decomposable(util.value)
       THEN util' = [util EXCEPT !.status = "ok"]
       ELSE util' = [util EXCEPT !.value = @ + 1]
    /\ UNCHANGED <<compressorVars, lib, shape, tie, stream, cli, legacy>>

\* f64_to_u64(number, precision)
F64ToU64Call ==
    /\ util = NoCall
    /\ \E number \in 0..MaxEighths : \E precision \in 0..MaxPrecision :
          util' = [fn |-> "f64_to_u64", number |-> number,
                   precision |-> precision,
                   status |-> f64_to_u64(number, precision).status,
                   value  |-> f64_to_u64(number, precision).value]
    /\ UNCHANGED <<compressorVars, lib, shape, tie, stream, cli, legacy>>

\* is_decomposable(n), up to its first loop.  `divisor` is the loop the call
\* is in: `while n % 2 == 0` or `while n % 3 == 0`.
IsDecomposableCall ==
    /\ util = NoCall
    /\ \E n \in (0..MaxSize) \cup TestSizes :
          util' = [fn |-> "is_decomposable", number |-> n, precision |-> 0,
                   status |-> "running", value |-> n,
                   divisor |-> 2, result |-> FALSE]
    /\ UNCHANGED <<compressorVars, lib, shape, tie, stream, cli, legacy>>

\* One test of a loop of is_decomposable: a pass, `n /= 2` or `n /= 3`; the
\* end of the first loop; or the end of the second and the return of n == 1.
\* 0 is a multiple of 2 and 0 / 2 is 0: a pass on 0 changes nothing.
IsDecomposableStep ==
    /\ util.fn = "is_decomposable" /\ util.status = "running"
    /\ IF util.value % util.divisor = 0
       THEN util' = [util EXCEPT !.value = @ \div util.divisor]
       ELSE IF util.divisor = 2
       THEN util' = [util EXCEPT !.divisor = 3]
       ELSE util' = [util EXCEPT !.status = "ok", !.result = (util.value = 1)]
    /\ UNCHANGED <<compressorVars, lib, shape, tie, stream, cli, legacy>>

NextUtils ==
    \/ NextSizeCall
    \/ NextSizeStep
    \/ F64ToU64Call
    \/ IsDecomposableCall
    \/ IsDecomposableStep

SpecUtils == InitUtils /\ [][NextUtils]_vars

\* The calls under way go on: a loop whose test can be made makes it.
SpecUtilsFair ==
    SpecUtils /\ WF_vars(NextSizeStep) /\ WF_vars(IsDecomposableStep)

\* ------------------------------------------------------------------------
\* main.rs: the command-line program
\* ------------------------------------------------------------------------
\* The compressor, the stream and the utilities at rest, while another part
\* of the program runs.
CompressorAndStreamIdle ==
    /\ header = CompressorHeaderNew
    /\ data_frames = << >>
    /\ added = << >>
    /\ stream_pc = "idle"
    /\ stream_bytes = << >>
    /\ altered = "none"
    /\ selection = ChosenByCaller
    /\ cs2 = NoStream
    /\ stream_out = NoResult
    /\ lib = 0
    /\ shape = "flat"
    /\ tie = "low"
    /\ data = << >>
    /\ kind = "FFT"
    /\ mode = "compress"
    /\ hint = 0
    /\ max_err = 0
    /\ pc = "idle"
    /\ c = FFTNew(0, 0)
    /\ buffer = << >>
    /\ trim_count = 0
    /\ fit_len = 0
    /\ current_err = ErrNone
    /\ jump = 0
    /\ iterations = 0
    /\ out = NoResult

\* enum CompressorType
CompressorTypes ==
    {"Auto", "Noop", "Fft", "Wavelet", "Constant", "Polynomial", "TopBottom"}

\* What std::fs::metadata finds at the input path: a file, a directory,
\* something else, or nothing (Err).
Targets == {"file", "dir", "other", "missing"}

\* The largest number of files read_dir lists in the input directory.
MaxEntries == 2

\* The arguments of a run and the input path.  `failed` records that an
\* operation the run was asked for did not succeed; `result` is what
\* process_args returned ("ok", "err") or "panic"; `exit` the exit code.
InitCli ==
    /\ CompressorAndStreamIdle
    /\ util = NoCall
    /\ legacy = NoConstant
    /\ \E uncompress \in BOOLEAN : \E compressor \in CompressorTypes :
       \E target \in Targets :
          cli = [pc         |-> "process_args",
                 uncompress |-> uncompress,
                 compressor |-> compressor,
                 target     |-> target,
                 entries    |-> 0,
                 failed     |-> FALSE,
                 result     |-> "none",
                 exit       |-> 0 - 1]

\* `return Err(..)` or a `?` that meets an Err: back to main with the error.
Returned(run, result) ==
    [run EXCEPT !.pc = "main", !.result = result,
                !.failed = @ \/ result # "ok"]

\* The end of process_single_file with Ok(()): the next file of the
\* directory, or Ok(()) from process_args after the last one.
FileDone(run, failure) ==
    IF run.entries > 1
    THEN [run EXCEPT !.entries = @ - 1, !.failed = @ \/ failure]
    ELSE [Returned(run, "ok") EXCEPT !.entries = 0, !.failed = run.failed \/ failure]

\* process_args
ProcessArgs ==
    /\ cli.pc = "process_args"
    /\ cli' = CASE cli.target = "file" ->
                      [cli EXCEPT !.pc = "process_single_file", !.entries = 1]
                 [] cli.target = "dir" -> [cli EXCEPT !.pc = "process_directory"]
                 [] OTHER -> Returned(cli, "err")
    /\ UNCHANGED <<compressorVars, lib, shape, tie, stream, util, legacy>>

\* process_directory: read_dir fails, or lists the files that
\* process_single_file is called on, one after the other.
ProcessDirectory ==
    /\ cli.pc = "process_directory"
    /\ \/ cli' = Returned(cli, "err")
       \/ cli' = Returned(cli, "ok")
       \/ \E n \in 1..MaxEntries :
             cli' = [cli EXCEPT !.pc = "process_single_file", !.entries = n]
    /\ UNCHANGED <<compressorVars, lib, shape, tie, stream, util, legacy>>

\* process_single_file, on what read_file returns: Ok(Some(..)), Ok(None) or
\* Err.  Decompression: from_bytes, decompress and write_optimal_wav return
\* or panic (their unwrap).  Compression: compress_data panics for
\* CompressorType::Auto (todo!), and std::fs::write returns Ok or Err.
ProcessSingleFile ==
    /\ cli.pc = "process_single_file"
    /\ \E read \in {"some", "none", "err"} :
          IF read # "some" THEN cli' = FileDone(cli, read = "err")
          ELSE IF cli.uncompress
               THEN \/ cli' = Returned(cli, "panic")
                    \/ cli' = FileDone(cli, FALSE)
          ELSE IF cli.compressor = "Auto" THEN cli' = Returned(cli, "panic")
          ELSE \/ cli' = Returned(cli, "err")
               \/ cli' = FileDone(cli, FALSE)
    /\ UNCHANGED <<compressorVars, lib, shape, tie, stream, util, legacy>>

\* main: exit(1) on Err, the return of main on Ok (code 0); a panic ends the
\* process with the code 101 of the Rust runtime.
Main ==
    /\ cli.pc = "main"
    /\ cli' = [cli EXCEPT !.pc = "exited",
                          !.exit = CASE cli.result = "ok"  -> 0
                                     [] cli.result = "err" -> 1
                                     [] OTHER              -> 101]
    /\ UNCHANGED <<compressorVars, lib, shape, tie, stream, util, legacy>>

NextCli ==
    \/ ProcessArgs
    \/ ProcessDirectory
    \/ ProcessSingleFile
    \/ Main

SpecCli == InitCli /\ [][NextCli]_vars

\* ------------------------------------------------------------------------
\* compressor/constant.rs: the Constant compressor over i64 samples
\* ------------------------------------------------------------------------
MaxSamples == 4

SampleValues == {0, 1, 2}

\* The inputs of Constant::compress: the vectors of 1..MaxSamples samples.
ConstantInputs ==
    UNION {[1..n -> SampleValues] : n \in 1..MaxSamples}

\* The number of samples of d equal to val.
Occurrences(d, val) == Cardinality({i \in 1..Len(d) : d[i] = val})

\* `seen_values` after the first loop of compress: the entries (val, count)
\* of the map.
SeenValues(d) == {<<d[i], Occurrences(d, d[i])>> : i \in 1..Len(d)}

\* Constant::new(frame_size), with the vector compress is called with.
ConstantNew(d) ==
    [pc |-> "new", data |-> d,
     constant |-> 0, error |-> 0, residuals |-> << >>,
     seen_values |-> {}, chosen |-> 0, hit_count |-> 0, pushed |-> << >>]

InitConstant ==
    /\ CompressorAndStreamIdle
    /\ util = NoCall
    /\ cli = NoRun
    /\ \E d \in ConstantInputs : legacy = ConstantNew(d)

\* Constant::compress up to its second loop: the map of the counts, and
\* `constant = 0; hit_count = 0; residuals = Vec::new()`.
ConstantCompress ==
    /\ legacy.pc = "new"
    /\ legacy' = [legacy EXCEPT !.pc = "walking",
                                !.seen_values = SeenValues(legacy.data),
                                !.chosen = 0,
                                !.hit_count = 0,
                                !.pushed = << >>]
    /\ UNCHANGED <<compressorVars, lib, shape, tie, stream, util, cli>>

\* One pass of `for (&val, &count) in &seen_values`: a HashMap yields its
\* entries in an order that is not specified, so the pass takes any entry not
\* yet visited.  A count above hit_count replaces the constant; any other
\* entry is pushed count times as (0, val).
ConstantVisit ==
    /\ legacy.pc = "walking"
    /\ \E entry \in legacy.seen_values :
          legacy' =
              IF entry[2] > legacy.hit_count
              THEN [legacy EXCEPT !.seen_values = @ \ {entry},
                                  !.chosen = entry[1],
                                  !.hit_count = entry[2]]
              ELSE [legacy EXCEPT !.seen_values = @ \ {entry},
                                  !.pushed = @ \o [k \in 1..entry[2] |->
                                                       <<0, entry[1]>>]]
    /\ UNCHANGED <<compressorVars, lib, shape, tie, stream, util, cli>>

\* The end of compress, every entry visited: set_constant, the residuals,
\* and set_error, whose quotient is a division of integers.
ConstantCompressEnd ==
    /\ legacy.pc = "walking"
    /\ legacy.seen_values = {}
    /\ legacy' = [legacy EXCEPT !.pc = "compressed",
                                !.constant = legacy.chosen,
                                !.residuals = legacy.pushed,
                                !.error = Len(legacy.pushed) \div Len(legacy.data)]
    /\ UNCHANGED <<compressorVars, lib, shape, tie, stream, util, cli>>

NextConstant ==
    \/ ConstantCompress
    \/ ConstantVisit
    \/ ConstantCompressEnd

SpecConstant == InitConstant /\ [][NextConstant]_vars

\* ------------------------------------------------------------------------
\* Properties of the compressors
\* ------------------------------------------------------------------------
Compressed == pc \in {"compressed", "decoded"}

NonConstant == c.max_value # c.min_value

\* TRUE when the decoded samples hold no value of a numerical library.
DecodeExact ==
    IF kind = "FFT" THEN FFTDecodeExact(c, Len(data))
    ELSE PolyDecodeExact(c, Len(data))

\* `e <= max_err` within the precision of the comparisons of the loops
\* (three decimals: 0.001 is 10 units of 10^-4).
WithinBudget(e, budget) == ErrWithin(e, budget + 10)

\* C1: decoding a frame with the length of its chunk returns exactly that
\* many samples, whatever the kind and the fitting mode.
C1_DecodeReturnsChunkLength ==
    pc = "decoded" => out.status = "ok" /\ Len(out.samples) = Len(data)

\* C2: after a bounded fit, the mean squared error between the chunk and the
\* decoded frame is at most the budget, within the precision of the loop
\* comparison (stated where the decoded samples are computed by the model).
C2_BoundedErrorWithinBudget ==
    (pc = "decoded" /\ mode = "bounded" /\ out.status = "ok" /\ DecodeExact)
        => WithinBudget(calculate_error(data, out.samples), max_err)

\* C3: the loops of FFT::compress_bounded and Polynomial::compress_bounded
\* run at most 23 passes (each pass counts one iteration, so the loops end),
\* and the frame they leave decodes to as many samples as the chunk has.
C3_BoundedLoopsEndWithinCap ==
    mode = "bounded" =>
        /\ iterations <= 23
        /\ pc = "decoded" => out.status = "ok" /\ Len(out.samples) = Len(data)

\* A bounded FFT fit that used all 23 passes without meeting its budget, and
\* whose frame decoded to the length of the chunk.
C3_Witness ==
    /\ mode = "bounded" /\ pc = "decoded" /\ iterations = 23
    /\ FFTLoopRuns(max_err, current_err)
    /\ out.status = "ok" /\ Len(out.samples) = Len(data)

\* C7: after compress_hinted the positions get_positions rebuilds are as many
\* as the stored data points.
C7_PositionsMatchDataPoints ==
    (kind # "FFT" /\ Compressed /\ NonConstant /\ c.point_step >= 1)
        => Len(get_positions(c, Len(data))) = Len(c.data_points)

\* C8: for a chunk of 128 samples or more, every FFT fitting mode transforms
\* a buffer of length next_size(N), the length to_data transforms back.
C8_FitLengthIsDecodeLength ==
    (kind = "FFT" /\ Compressed /\ NonConstant /\ Len(data) >= GIBBS_MIN_LEN)
        => /\ fit_len = next_size(Len(data))
           /\ GibbsFrameSize(Len(data)) = next_size(Len(data))

\* C9: a chunk whose minimum equals its maximum stores no frequency and no
\* data point, and decodes to N copies of the stored max_value.
C9_ConstantChunkDecodesToMax ==
    (Compressed /\ MinValue(data) = MaxValue(data)) =>
        /\ IF kind = "FFT" THEN c.frequencies = << >> ELSE c.data_points = << >>
        /\ pc = "decoded" =>
              out = Decoded([i \in 1..Len(data) |-> c.max_value])

\* TRUE when freqs are the K bins of largest norm of buf, each with its
\* position in buf; fewer only when buf has fewer bins that are not zero.
IsLargestBins(freqs, buf, K) ==
    LET nonzero == Cardinality({k \in 1..Len(buf) : Norm2(buf[k]) # 0})
        kept    == {freqs[m].pos + 1 : m \in 1..Len(freqs)}
    IN  /\ Len(freqs) = (IF K < nonzero THEN K ELSE nonzero)
        /\ Cardinality(kept) = Len(freqs)
        /\ \A m \in 1..Len(freqs) :
              /\ freqs[m].pos + 1 \in 1..Len(buf)
              /\ to_complex(freqs[m]) = buf[freqs[m].pos + 1]
        /\ \A m \in 1..Len(freqs) : \A k \in (1..Len(buf)) \ kept :
              Norm2(buf[k]) <= Norm2(to_complex(freqs[m]))

\* C10: fft_trim(buffer, K) returns the K bins of largest magnitude of the
\* buffer with their positions.
C10_TrimKeepsLargestBins ==
    (kind = "FFT" /\ trim_count >= 1)
        => IsLargestBins(c.frequencies, buffer, trim_count)

\* ------------------------------------------------------------------------
\* Properties of the streams
\* ------------------------------------------------------------------------
\* The chunks of the calls so far, in the order of the calls.
AddedChunks == [k \in 1..Len(added) |-> added[k].chunk]

\* The samples each frame decoded to on its own, in the order of the calls.
AddedSamples == [k \in 1..Len(added) |-> added[k].decoded.samples]

\* C4: after any sequence of compress_chunk, compress_chunk_with and
\* compress_chunk_bounded_with calls, decompress returns the vectors the
\* frames decode to one by one, concatenated in the order the chunks were
\* added, and as many samples as the chunks have together.
C4_DecompressConcatenatesInOrder ==
    stream_pc = "decompressed" =>
        /\ stream_out = Decoded(Flatten(AddedSamples))
        /\ Len(stream_out.samples) = Len(Flatten(AddedChunks))

\* A decompressed stream of two frames of different kinds, whose chunks have
\* different lengths and decode to different vectors.
C4_Witness ==
    /\ stream_pc = "decompressed" /\ stream_out.status = "ok"
    /\ Len(added) = 2
    /\ Len(added[1].chunk) # Len(added[2].chunk)
    /\ added[1].decoded.samples # added[2].decoded.samples
    /\ data_frames[1].compressor # data_frames[2].compressor

\* C5: a new stream has no frame, and each compress_chunk,
\* compress_chunk_with or compress_chunk_bounded_with call adds exactly one
\* frame after the frames already stored, which it leaves as they were, as it
\* leaves the header.
C5_EachCallAppendsOneFrame ==
    /\ data_frames = << >>
    /\ [][added' # added =>
            /\ Len(data_frames') = Len(data_frames) + 1
            /\ SubSeq(data_frames', 1, Len(data_frames)) = data_frames
            /\ header' = header]_vars

\* A stream under construction that holds two frames of different kinds, one
\* for each call made.
C5_Witness ==
    /\ stream_pc = "building"
    /\ Len(added) = 2 /\ Len(data_frames) = 2
    /\ data_frames[1] # data_frames[2]
    /\ data_frames[1].compressor = "FFT" /\ data_frames[2].compressor = "Polynomial"

\* The samples of stream_out that belong to frame k.
SamplesOfFrame(k) ==
    SubSeq(stream_out.samples,
           Len(Flatten(SubSeq(AddedChunks, 1, k - 1))) + 1,
           Len(Flatten(SubSeq(AddedChunks, 1, k))))

\* TRUE when frame k is a Constant frame of a chunk of one value.
ConstantFrameOfConstantChunk(k) ==
    /\ data_frames[k].compressor = "Constant"
    /\ MinValue(added[k].chunk) = MaxValue(added[k].chunk)

\* C6: the stream from_bytes reads from the bytes to_bytes wrote has as many
\* frames as the stream that was written and decompresses to the same
\* samples; the samples of a Constant frame of a constant chunk are exactly
\* the chunk.
C6_BytesRoundTripKeepsStream ==
    /\ (altered = "none" /\ stream_pc \in {"restored", "restored_decompressed"}) =>
          Len(cs2.data_frames) = Len(data_frames)
    /\ (altered = "none" /\ stream_pc = "restored_decompressed") =>
          /\ stream_out = StreamDecompress(data_frames, lib)
          /\ \A k \in 1..Len(data_frames) :
                ConstantFrameOfConstantChunk(k) =>
                    SamplesOfFrame(k) = added[k].chunk

\* A stream of two frames, the second a Constant frame of a constant chunk,
\* written, read back and decompressed.
C6_Witness ==
    /\ altered = "none"
    /\ stream_pc = "restored_decompressed" /\ stream_out.status = "ok"
    /\ Len(data_frames) = 2
    /\ data_frames[1].compressor = "Polynomial"
    /\ Len(added[1].chunk) > Len(added[2].chunk)
    /\ ConstantFrameOfConstantChunk(2)

\* ------------------------------------------------------------------------
\* Properties of the frames
\* ------------------------------------------------------------------------
\* C11: in the FFT frame that compress, compress_hinted or compress_bounded
\* leaves, the frequencies are in non-increasing order of magnitude and none
\* of them has a real and an imaginary part that are both 0.
C11_FrequenciesSortedNoZero ==
    (kind = "FFT" /\ Compressed) =>
        /\ \A m \in 1..Len(c.frequencies) :
              Norm2(to_complex(c.frequencies[m])) # 0
        /\ \A m \in 1..(Len(c.frequencies) - 1) :
              Norm2(to_complex(c.frequencies[m]))
                  >= Norm2(to_complex(c.frequencies[m + 1]))

\* The tag that opens the payload of a frame of the kind compressor.
TagOfKind(compressor) ==
    CASE compressor = "FFT"        -> FFT_COMPRESSOR_ID
      [] compressor = "Constant"   -> CONSTANT_COMPRESSOR_ID
      [] compressor = "Polynomial" -> 0
      [] compressor = "Idw"        -> 1
      [] compressor = "Noop"       -> NOOP_COMPRESSOR_ID
      [] OTHER                     -> 0 - 1

\* TRUE when the kind of the frame is not the kind its payload is tagged with.
KindDisagreesWithTag(frame) == frame.data[1] # TagOfKind(frame.compressor)

\* C12: decompressing a stream that holds a frame whose kind disagrees with
\* the tag inside its payload fails: it returns no samples.
C12_KindTagMismatchFails ==
    (/\ stream_pc = "restored_decompressed"
     /\ \E k \in 1..Len(cs2.data_frames) : KindDisagreesWithTag(cs2.data_frames[k]))
        => stream_out.status # "ok"

\* The candidates of the last call whose achieved error is at most max_error.
Qualifying ==
    {j \in DOMAIN selection.results :
        ErrWithin(selection.results[j].error, selection.max_error)}

\* TRUE when the frame is the choice the selection rule makes among the
\* results of the last call: Noop when no candidate qualifies, else a
\* qualifying candidate with its payload, no longer than the payload of any
\* other qualifying candidate.
SelectedByRule(frame) ==
    IF Qualifying = {} THEN frame.compressor = "Noop"
    ELSE /\ frame.compressor \in Qualifying
         /\ frame.data = selection.results[frame.compressor].compressed_data
         /\ \A j \in Qualifying :
               Len(frame.data) <= Len(selection.results[j].compressed_data)

\* TRUE when the samples frame k decodes to are computed by the model (they
\* hold no value of a numerical library).
FrameDecodeExact(k) ==
    CASE data_frames[k].compressor = "FFT" ->
            FFTDecodeExact(FFTDecompress(data_frames[k].data), Len(added[k].chunk))
      [] data_frames[k].compressor \in {"Polynomial", "Idw"} ->
            PolyDecodeExact(PolynomialDecompress(data_frames[k].data),
                            Len(added[k].chunk))
      [] OTHER -> TRUE

\* The error between the chunk of call k and the samples its frame decodes to.
ReconstructionError(k) == calculate_error(added[k].chunk, added[k].decoded.samples)

C13_AutoKeepsReportedErrorWithinBudget ==
    selection.auto =>
        /\ SelectedByRule(data_frames[Len(data_frames)])
        /\ \/ data_frames[Len(data_frames)].compressor \in {"Noop", "Constant"}
           \/ ~FrameDecodeExact(Len(data_frames))
           \/ ErrWithin(ReconstructionError(Len(data_frames)), selection.max_error)

\* A Noop frame that compress_best fell back to because neither of its
\* candidates, Polynomial and Idw, met max_err.
C13_FallbackWitness ==
    /\ selection.auto
    /\ DOMAIN selection.results = {"Polynomial", "Idw"}
    /\ Qualifying = {}
    /\ data_frames[Len(data_frames)].compressor = "Noop"
    /\ added[Len(added)].decoded = Decoded(added[Len(added)].chunk)

\* A frame chosen by compress_best among FFT and Polynomial, which both
\* qualify: the FFT frame, the shorter, which decodes to its chunk of four
\* samples.
C13_Witness ==
    /\ selection.auto
    /\ DOMAIN selection.results = {"FFT", "Polynomial"}
    /\ Qualifying = {"FFT", "Polynomial"}
    /\ Len(added[Len(added)].chunk) = 4
    /\ data_frames[Len(data_frames)].compressor = "FFT"
    /\ FrameDecodeExact(Len(data_frames))
    /\ ErrWithin(ReconstructionError(Len(data_frames)), selection.max_error)

\* C14: in the frame that Polynomial or Idw leaves after compress,
\* compress_hinted or compress_bounded, data_points holds at least one entry
\* and at most as many entries as the chunk has samples.
C14_DataPointsBetweenOneAndLen ==
    (kind \in PolynomialTypes /\ Compressed) =>
        /\ Len(c.data_points) >= 1
        /\ Len(c.data_points) <= Len(data)

\* C14, amended: a chunk whose maximum and minimum are equal (every chunk of
\* one sample is one) leaves data_points empty; any other chunk leaves
\* between 2 and N entries.
C14_DataPointsEmptyOrWithinLen ==
    (kind \in PolynomialTypes /\ Compressed) =>
        IF c.max_value = c.min_value
        THEN c.data_points = << >>
        ELSE /\ Len(c.data_points) >= 2
             /\ Len(c.data_points) <= Len(data)

\* A bounded fit of a chunk that is not constant which stored every sample
\* of the chunk.
C14_Witness ==
    /\ kind \in PolynomialTypes /\ Compressed /\ mode = "bounded"
    /\ c.max_value # c.min_value
    /\ Len(data) >= 4
    /\ Len(c.data_points) = Len(data)

\* TRUE when g is x between floor(pad / 2) copies of its first sample and
\* pad - floor(pad / 2) copies of its last sample.
PaddedBothEnds(g, x, pad) ==
    /\ Len(g) = Len(x) + pad
    /\ \A i \in 1..(pad \div 2) : g[i] = x[1]
    /\ \A i \in 1..Len(x) : g[(pad \div 2) + i] = x[i]
    /\ \A i \in ((pad \div 2) + Len(x) + 1)..Len(g) : g[i] = x[Len(x)]

\* C15: gibbs_sizing returns next_size(N) samples, the chunk between
\* floor(pad / 2) copies of its first sample and pad - floor(pad / 2) copies
\* of its last sample, pad = next_size(N) - N; and for the chunks the fit
\* pads (128 samples or more) to_data removes a prefix and a suffix of these
\* same lengths, which leaves the positions of the chunk.
C15_GibbsSizingPadsBothEnds ==
    kind = "FFT" =>
        /\ Len(gibbs_sizing(data)) = next_size(Len(data))
        /\ PaddedBothEnds(gibbs_sizing(data), data, next_size(Len(data)) - Len(data))
        /\ Len(data) >= GIBBS_MIN_LEN =>
              /\ TrimSizes(Len(data))[1] = (next_size(Len(data)) - Len(data)) \div 2
              /\ TrimSizes(Len(data))[1] + TrimSizes(Len(data))[2]
                    = next_size(Len(data)) - Len(data)
              /\ TrimPadding(gibbs_sizing(data), TrimSizes(Len(data))) = data

\* A chunk of 129 samples whose bounded fit transformed the 144 samples
\* gibbs_sizing returns (7 before the chunk, 8 after it) and whose frame
\* decoded to 129 samples.
C15_Witness ==
    /\ kind = "FFT" /\ mode = "bounded" /\ pc = "decoded"
    /\ Len(data) = 129 /\ data[1] # data[129]
    /\ fit_len = Len(gibbs_sizing(data)) /\ fit_len = 144
    /\ TrimSizes(Len(data)) = <<7, 8>>
    /\ out.status = "ok" /\ Len(out.samples) = Len(data)

\* ------------------------------------------------------------------------
\* Properties of the functions of utils/mod.rs
\* ------------------------------------------------------------------------
\* TRUE when m >= 1 has no prime factor other than 2 and 3 (m below 2^15).
OnlyFactorsTwoAndThree(m) ==
    \E a \in 0..14 : \E b \in 0..9 : m = (2 ^ a) * (3 ^ b)

\* C16: next_size(n) is the smallest integer above n whose only prime
\* factors are 2 and 3.
C16_NextSizeIsSmallestAbove ==
    (util.fn = "next_size" /\ util.status = "ok") =>
        /\ util.value > util.number
        /\ OnlyFactorsTwoAndThree(util.value)
        /\ \A m \in (util.number + 1)..(util.value - 1) : ~OnlyFactorsTwoAndThree(m)

\* The last case of test_next_size: next_size(12432) is 13122.
C16_Witness ==
    /\ util.fn = "next_size" /\ util.status = "ok"
    /\ util.number = 12432 /\ util.value = 13122

\* C19: for x >= 0 and a precision d from 0 to 6, f64_to_u64(x, d) is
\* x * 10^d rounded to the nearest integer.
C19_F64ToU64Rounds ==
    (util.fn = "f64_to_u64" /\ util.status = "ok") =>
        util.value = RoundDiv(util.number * (10 ^ util.precision), 8)

\* C17: a chunk of one sample decodes, from the frame of FFT, Polynomial or
\* Idw, to that same sample.
C17_SingleSampleRoundTrips ==
    (pc = "decoded" /\ Len(data) = 1) => out = Decoded(data)

\* ------------------------------------------------------------------------
\* Properties of the bytes of a stream
\* ------------------------------------------------------------------------
\* The bytes of a stream laid out as: 'BRRO', the byte `fifth`, the number
\* of frames, and for each frame its frame_size when with_frame_size, its
\* sample_count, the discriminant of its kind, the length of its payload and
\* its payload.
LaidOut(fifth, frames, with_frame_size) ==
    <<66, 82, 82, 79, fifth>>
    \o VarintBytes(Len(frames))
    \o Flatten([k \in 1..Len(frames) |->
          (IF with_frame_size THEN VarintBytes(frames[k].frame_size) ELSE << >>)
          \o VarintBytes(frames[k].sample_count)
          \o <<Discriminant(frames[k].compressor)>>
          \o VarintBytes(Len(frames[k].data))
          \o frames[k].data])

\* C18: the bytes to_bytes returns are 'BRRO', a version byte equal to 1,
\* the number of frames, and each frame as sample_count, kind discriminant,
\* payload length, payload.
C18_BytesAreMagicVersionFrames ==
    stream_pc = "bytes" => stream_bytes = LaidOut(1, data_frames, FALSE)

\* C18, amended: the bytes to_bytes returns are 'BRRO', a byte equal to 0,
\* the number of frames, and each frame as frame_size, sample_count, kind
\* discriminant, payload length, payload.
C18_BytesAreMagicZeroSizedFrames ==
    stream_pc = "bytes" => stream_bytes = LaidOut(0, data_frames, TRUE)

\* The bytes of a stream of two frames, a Constant frame of two samples
\* first: the fifth byte is 0, the sixth the number of frames, and the frame
\* starts with its frame_size, before its sample_count and its kind.
C18_Witness ==
    /\ stream_pc = "bytes"
    /\ Len(data_frames) = 2
    /\ data_frames[1].compressor = "Constant"
    /\ data_frames[2].compressor # "Constant"
    /\ SubSeq(stream_bytes, 1, 10)
          = <<66, 82, 82, 79, 0, 2, FRAME_SIZE, 2, Discriminant("Constant"), 9>>

\* C20: from_bytes on the bytes of a stream altered in one of Alterations
\* aborts: it returns no stream, and no sample is decoded from these bytes.
C20_MalformedBytesAbort ==
    altered # "none" => (cs2 = NoStream /\ stream_out.status # "ok")

\* ------------------------------------------------------------------------
\* Properties of the command-line program
\* ------------------------------------------------------------------------
\* C21: the program exits with code 0 only when what it was asked for
\* succeeded, and with code 1 on any failure, a failure to read the input
\* file included.
C21_ExitCodeTellsFailure ==
    cli.pc = "exited" =>
        /\ cli.exit = 0 => ~cli.failed
        /\ cli.failed => cli.exit = 1

\* ------------------------------------------------------------------------
\* Properties of the keypoints of Polynomial and Idw
\* ------------------------------------------------------------------------
\* TRUE when the values are the samples of the chunk d at the positions.
ValuesAtPositions(values, positions, d) ==
    /\ Len(values) = Len(positions)
    /\ \A i \in 1..Len(values) :
          /\ positions[i] + 1 \in 1..Len(d)
          /\ values[i] = d[positions[i] + 1]

\* C22: after compress_hinted the stored data points are the samples of the
\* chunk at the positions get_positions rebuilds, one by one, also when the
\* minimum and the maximum are inserted.
C22_DataPointsLineUpWithPositions ==
    (kind \in PolynomialTypes /\ Compressed /\ NonConstant /\ mode = "hinted")
        => ValuesAtPositions(c.data_points, get_positions(c, Len(data)), data)

\* A sequence of positions that rises strictly from 0 to last.
RisesFromZeroTo(positions, last) ==
    /\ Len(positions) >= 1
    /\ positions[1] = 0
    /\ positions[Len(positions)] = last
    /\ \A i \in 1..(Len(positions) - 1) : positions[i] < positions[i + 1]

\* C23: for a frame of N >= 1 samples with a stride of 1..255 and the minimum
\* and the maximum at positions of the frame, get_positions(N) is strictly
\* increasing, starts at 0 and ends at N - 1.
C23_PositionsRiseFromZeroToLast ==
    (kind \in PolynomialTypes /\ Compressed /\ NonConstant
        /\ c.point_step \in 1..255)
        => RisesFromZeroTo(get_positions(c, Len(data)), Len(data) - 1)

\* ------------------------------------------------------------------------
\* Properties of the loop of FFT::compress_bounded
\* ------------------------------------------------------------------------
\* The extra frequencies requested after k passes, as a closed form: one
\* half of the base (1 at least) for each of the passes 1..17, one tenth of
\* it (1 at least) for each of the passes 18..22.
ExtraAfter(k, base) ==
    (IF k < 17 THEN k ELSE 17) * Max2(1, base \div 2)
    + (IF k <= 17 THEN 0 ELSE (IF k < 22 THEN k ELSE 22) - 17)
      * Max2(1, base \div 10)

\* C24: pass number i of FFT::compress_bounded requests base + extra
\* frequencies, base = max(3, N / 100), extra the sum of the increments of
\* the passes before it; when the loop is left, the frequencies stored are
\* those the last pass selected and the error reported is the error that
\* pass measured.
C24_RequestsFollowSchedule ==
    (kind = "FFT" /\ mode = "bounded" /\ NonConstant /\ iterations >= 1)
        => /\ trim_count = Max2(3, Len(data) \div 100)
                           + ExtraAfter(iterations - 1,
                                        Max2(3, Len(data) \div 100))
           /\ Compressed =>
                 /\ c.frequencies = fft_trim(buffer, trim_count, tie)
                 /\ c.error = current_err
                 /\ c.error = FFTFitError(c, GData(data), buffer, lib)

\* A fit of 400 samples left after its pass 23, which requested
\* 4 + 17 * 2 + 5 * 1 = 43 frequencies.
C24_Witness ==
    /\ kind = "FFT" /\ mode = "bounded" /\ Compressed /\ NonConstant
    /\ Len(data) = 400 /\ iterations = 23 /\ trim_count = 43
    /\ c.error = current_err

\* ------------------------------------------------------------------------
\* Properties of the loop of Polynomial::compress_bounded
\* ------------------------------------------------------------------------
\* C25: when Polynomial::compress_bounded returns for a chunk whose minimum
\* is not its maximum, either the last error measured, rounded to 4 decimals,
\* is at most the budget rounded to 3 decimals, or the frame stores the N
\* samples of the chunk with a point_step of 1.
C25_BoundedMeetsBudgetOrStoresAll ==
    (kind \in PolynomialTypes /\ mode = "bounded" /\ Compressed /\ NonConstant)
        => \/ ~PolyLoopRuns(max_err, current_err)
           \/ Len(c.data_points) = Len(data) /\ c.point_step = 1

\* ------------------------------------------------------------------------
\* Properties of the decoded samples
\* ------------------------------------------------------------------------
\* TRUE when every sample lies in the closed interval [lo, hi] (a sample that
\* is not a number lies in no interval).
AllWithin(samples, lo, hi) ==
    \A i \in 1..Len(samples) :
        samples[i] # NaN /\ lo <= samples[i] /\ samples[i] <= hi

\* C26: every sample FFT::to_data, polynomial_to_data and idw_to_data return
\* lies between the min_value and the max_value of the frame.
C26_DecodedSamplesWithinMinMax ==
    (pc = "decoded" /\ out.status = "ok" /\ c.min_value <= c.max_value)
        => AllWithin(out.samples, c.min_value, c.max_value)

\* C27: for a chunk of 1..65535 samples and a point count of 1 or more given
\* to compress_hinted, the point_step stored is max(1, N / P), the stride the
\* keypoints were picked with: it does not wrap around 8 bits and is never 0.
C27_StoredStepIsStride ==
    (kind \in PolynomialTypes /\ mode = "hinted" /\ Compressed /\ NonConstant
        /\ Len(data) \in 1..65535 /\ hint >= 1)
        => c.point_step = Max2(1, Len(data) \div hint)

\* ------------------------------------------------------------------------
\* Properties of the keys of the spline
\* ------------------------------------------------------------------------
\* The keys polynomial_to_data gives the spline when it decodes the frame.
DecodedKeys == SplineKeys(get_positions(c, Len(data)), c.data_points)

\* TRUE in the states where polynomial_to_data has built a spline.
SplineDecoded ==
    /\ kind = "Polynomial" /\ pc = "decoded" /\ out.status = "ok"
    /\ NonConstant

\* C28 as stated: only the first and the last key are Linear, every key
\* between them is Catmull-Rom.
C28_OnlyFirstAndLastLinear ==
    SplineDecoded =>
        \A k \in 1..Len(DecodedKeys) :
            DecodedKeys[k].interpolation = "Linear"
                <=> (k = 1 \/ k = Len(DecodedKeys))

\* C28: what holds of polynomial_to_data.  The first key and the keys at the
\* last two positions are Linear; a key is Catmull-Rom exactly when it has
\* one position behind it and two ahead.
C28_FirstAndLastTwoLinear ==
    SplineDecoded =>
        \A k \in 1..Len(DecodedKeys) :
            DecodedKeys[k].interpolation = "Linear"
                <=> (k = 1 \/ k >= Len(get_positions(c, Len(data))) - 1)

\* A decoded frame of four keys or more, as many as positions: the second is
\* Catmull-Rom and the one before the last is Linear.
C28_Witness ==
    /\ SplineDecoded
    /\ Len(DecodedKeys) >= 4
    /\ Len(DecodedKeys) = Len(get_positions(c, Len(data)))
    /\ DecodedKeys[2].interpolation = "CatmullRom"
    /\ DecodedKeys[Len(DecodedKeys) - 1].interpolation = "Linear"

\* ------------------------------------------------------------------------
\* Properties of the Constant compressor over i64 samples
\* ------------------------------------------------------------------------
\* TRUE when no value occurs in d more often than val does.
MostFrequent(d, val) ==
    /\ Occurrences(d, val) >= 1
    /\ \A i \in 1..Len(d) : Occurrences(d, d[i]) <= Occurrences(d, val)

\* C29: after Constant::compress on a vector that is not empty, whatever the
\* order in which the map of the counts was visited, the constant is a most
\* frequent value of the vector and the residuals are as many as the samples
\* that differ from the constant.
C29_ConstantMostFrequentResidualsTheRest ==
    legacy.pc = "compressed" =>
        /\ MostFrequent(legacy.data, legacy.constant)
        /\ Len(legacy.residuals)
              = Len(legacy.data) - Occurrences(legacy.data, legacy.constant)

\* ------------------------------------------------------------------------
\* Properties of is_decomposable
\* ------------------------------------------------------------------------
\* Every call of is_decomposable returns.
IsDecomposableReturns ==
    (util.fn = "is_decomposable") ~> (util.status = "ok")

\* A call of is_decomposable that returned, returned TRUE exactly for a
\* product of a power of 2 and a power of 3.
IsDecomposableDecides ==
    [](util.fn = "is_decomposable" /\ util.status = "ok"
          => (util.result <=> OnlyFactorsTwoAndThree(util.number)))

\* C30: is_decomposable(n) returns for every n >= 0, 0 included, and returns
\* TRUE exactly when n is 2^a * 3^b for some a, b >= 0.
C30_IsDecomposableReturnsAndDecides ==
    IsDecomposableReturns /\ IsDecomposableDecides

====
